---------------------------- MODULE Spec2Model ----------------------------
(***************************************************************************)
(* A model of ExcelProcessor (src/module/vpo_from_json.py): the            *)
(* configuration trees and their deep merge, the formula compiler, the     *)
(* grid writer and the period loop of process_years.                       *)
(*                                                                         *)
(* Python objects live on a heap: a dict or a list is an object with an    *)
(* address, and a container holds either an immutable scalar or a          *)
(* reference to another object, so aliasing and in-place writes are        *)
(* visible.  Text is a sequence of one-character strings.                  *)
(***************************************************************************)
EXTENDS Integers, Sequences, FiniteSets, TLC

VARIABLES
    heap,       \* the Python heap: a sequence of dict and list objects
    self,       \* the ExcelProcessor's attributes
    env,        \* what the run is started on: configuration file, template,
                \* folders, source workbooks, arguments
    pc,         \* the position of process_years
    loc,        \* the locals of process_years and _process_data_for_year
    new_wb,     \* the workbook being built for the current year
    saved,      \* the workbooks saved so far, with their years
    obs,        \* a record of what the current year's processing did
    arg,        \* inputs of the operation under study (pure-function runs)
    res         \* its result, NoRes until the operation has been applied

vars == <<heap, self, env, pc, loc, new_wb, saved, obs, arg, res>>

NoRes == [t |-> "none"]

---------------------------------------------------------------------------
(* Values.  A JSON value is a tagged record: a str holds its characters,   *)
(* a dict its keys in insertion order (ks) and its items (m), a list its   *)
(* elements.                                                               *)

Str(s) == [t |-> "str", s |-> s]
Num(n) == [t |-> "int", n |-> n]
Bool(b) == [t |-> "bool", b |-> b]
Ref(a) == [t |-> "ref", a |-> a]
\* a str that the program uses as a dict key
Key(k) == [t |-> "key", k |-> k]
Dict(ks, m) == [t |-> "dict", ks |-> ks, m |-> m]
List(l) == [t |-> "list", l |-> l]
EmptyDict == Dict(<<>>, <<>>)

\* isinstance(x, dict) for a cell x of heap h
IsDict(h, c) == c.t = "ref" /\ h[c.a].t = "dict"

\* e's value handed to F: e is computed once, before F is applied
Bind(e, F(_)) == CHOOSE y \in {F(x) : x \in {e}} : TRUE

RECURSIVE Load(_, _), LoadKeys(_, _, _, _), LoadItems(_, _, _, _)
\* json.load: allocates the objects of the value v on heap h
Load(h, v) ==
    IF v.t = "dict"
    THEN Bind(LoadKeys(h, v, 1, <<>>),
              LAMBDA r : [h |-> Append(r.h, Dict(v.ks, r.m)),
                          c |-> Ref(Len(r.h) + 1)])
    ELSE IF v.t = "list"
    THEN Bind(LoadItems(h, v.l, 1, <<>>),
              LAMBDA r : [h |-> Append(r.h, List(r.l)),
                          c |-> Ref(Len(r.h) + 1)])
    ELSE [h |-> h, c |-> v]
LoadKeys(h, v, i, acc) ==
    IF i > Len(v.ks) THEN [h |-> h, m |-> acc]
    ELSE Bind(Load(h, v.m[v.ks[i]]),
              LAMBDA r : LoadKeys(r.h, v, i + 1, acc @@ (v.ks[i] :> r.c)))
LoadItems(h, l, i, acc) ==
    IF i > Len(l) THEN [h |-> h, l |-> acc]
    ELSE Bind(Load(h, l[i]),
              LAMBDA r : LoadItems(r.h, l, i + 1, Append(acc, r.c)))

RECURSIVE View(_, _)
\* the value a cell denotes (what == compares, with the key order kept)
View(h, c) ==
    IF c.t # "ref" THEN c
    ELSE LET o == h[c.a]
         IN  IF o.t = "dict"
             THEN Dict(o.ks, [k \in DOMAIN o.m |-> View(h, o.m[k])])
             ELSE List([i \in DOMAIN o.l |-> View(h, o.l[i])])

RECURSIVE Reach(_, _)
\* the addresses of the mutable objects reachable from a cell
Reach(h, c) ==
    IF c.t # "ref" THEN {}
    ELSE LET o == h[c.a]
         IN  {c.a} \cup
             (IF o.t = "dict"
              THEN UNION {Reach(h, o.m[k]) : k \in DOMAIN o.m}
              ELSE UNION {Reach(h, o.l[i]) : i \in DOMAIN o.l})

\* d[key] = cell for the dict at address a (a new key is appended)
SetItem(h, a, key, cell) ==
    LET o == h[a]
    IN  [h EXCEPT ![a] =
            IF key \in DOMAIN o.m
            THEN Dict(o.ks, [o.m EXCEPT ![key] = cell])
            ELSE Dict(Append(o.ks, key), o.m @@ (key :> cell))]

\* a copy that copies nothing: the result aliases its argument
DeepCopyAlias(h, c) == [h |-> h, c |-> c]

RECURSIVE DeepCopy(_, _), CopyKeys(_, _, _, _), CopyItems(_, _, _, _)
\* copy.deepcopy: fresh objects for every dict and list below c
DeepCopy(h, c) ==
    IF c.t # "ref" THEN [h |-> h, c |-> c]
    ELSE IF h[c.a].t = "dict"
    THEN Bind(CopyKeys(h, h[c.a], 1, <<>>),
              LAMBDA r : [h |-> Append(r.h, Dict(h[c.a].ks, r.m)),
                          c |-> Ref(Len(r.h) + 1)])
    ELSE Bind(CopyItems(h, h[c.a].l, 1, <<>>),
              LAMBDA r : [h |-> Append(r.h, List(r.l)),
                          c |-> Ref(Len(r.h) + 1)])
CopyKeys(h, o, i, acc) ==
    IF i > Len(o.ks) THEN [h |-> h, m |-> acc]
    ELSE Bind(DeepCopy(h, o.m[o.ks[i]]),
              LAMBDA r : CopyKeys(r.h, o, i + 1, acc @@ (o.ks[i] :> r.c)))
CopyItems(h, l, i, acc) ==
    IF i > Len(l) THEN [h |-> h, l |-> acc]
    ELSE Bind(DeepCopy(h, l[i]),
              LAMBDA r : CopyItems(r.h, l, i + 1, Append(acc, r.c)))

\* a merge that never recurses: dict.update at the top level
BothDictsNever(h, result, key, value) == FALSE

\* key in result and isinstance(result[key], dict) and isinstance(value, dict)
BothDicts(h, result, key, value) ==
    /\ key \in DOMAIN h[result.a].m
    /\ IsDict(h, h[result.a].m[key])
    /\ IsDict(h, value)

RECURSIVE DeepMergeDicts(_, _, _), MergeKeys(_, _, _, _)
\* _deep_merge_dicts(base, override): the heap after it and the cell of the
\* merged dict
DeepMergeDicts(h, base, override) ==
    Bind(DeepCopy(h, base), LAMBDA r : MergeKeys(r.h, r.c, override, 1))
\* the loop of lines 573-583 from the i-th key of override
MergeKeys(h, result, override, i) ==
    IF i > Len(h[override.a].ks) THEN [h |-> h, c |-> result]
    ELSE Bind(IF BothDicts(h, result, h[override.a].ks[i],
                           h[override.a].m[h[override.a].ks[i]])
              THEN DeepMergeDicts(h, h[result.a].m[h[override.a].ks[i]],
                                  h[override.a].m[h[override.a].ks[i]])
              ELSE DeepCopy(h, h[override.a].m[h[override.a].ks[i]]),
              LAMBDA r : MergeKeys(
                  SetItem(r.h, result.a, h[override.a].ks[i], r.c),
                  result, override, i + 1))

---------------------------------------------------------------------------
(* Text: a Python str is the sequence of its characters.                   *)

Digits == <<"0", "1", "2", "3", "4", "5", "6", "7", "8", "9">>
Letters == <<"A", "B", "C", "D", "E", "F", "G", "H", "I", "J", "K", "L", "M",
             "N", "O", "P", "Q", "R", "S", "T", "U", "V", "W", "X", "Y", "Z">>

\* the position of x in the sequence s, 0 when absent
IndexOf(s, x) == IF \E i \in DOMAIN s : s[i] = x
                 THEN CHOOSE i \in DOMAIN s : s[i] = x
                 ELSE 0

RECURSIVE IntToStr(_)
\* str(n)
IntToStr(n) ==
    IF n < 0 THEN <<"-">> \o IntToStr(0 - n)
    ELSE IF n < 10 THEN <<Digits[n + 1]>>
    ELSE IntToStr(n \div 10) \o <<Digits[(n % 10) + 1]>>

\* whether int(s) succeeds: s is a non-empty run of decimal digits
IsInt(s) == Len(s) > 0 /\ \A i \in DOMAIN s : IndexOf(Digits, s[i]) > 0

RECURSIVE ToInt(_)
\* int(s)
ToInt(s) ==
    IF Len(s) = 0 THEN 0
    ELSE 10 * ToInt(SubSeq(s, 1, Len(s) - 1)) + (IndexOf(Digits, s[Len(s)]) - 1)

\* the least element of a non-empty set of integers
Min(S) == CHOOSE x \in S : \A y \in S : x <= y

RECURSIVE SplitFrom(_, _, _)
SplitFrom(s, sep, i) ==
    IF \A j \in i..Len(s) : s[j] # sep THEN <<SubSeq(s, i, Len(s))>>
    ELSE Bind(Min({j \in i..Len(s) : s[j] = sep}),
              LAMBDA j : <<SubSeq(s, i, j - 1)>> \o SplitFrom(s, sep, j + 1))
\* s.split(sep) for a one-character separator
Split(s, sep) == SplitFrom(s, sep, 1)

RECURSIVE ReplaceFrom(_, _, _, _)
ReplaceFrom(s, old, new, i) ==
    IF \A j \in i..(Len(s) - Len(old) + 1) : SubSeq(s, j, j + Len(old) - 1) # old
    THEN SubSeq(s, i, Len(s))
    ELSE Bind(Min({j \in i..(Len(s) - Len(old) + 1) :
                      SubSeq(s, j, j + Len(old) - 1) = old}),
              LAMBDA j : SubSeq(s, i, j - 1) \o new
                         \o ReplaceFrom(s, old, new, j + Len(old)))
\* s.replace(old, new) for a non-empty old: every occurrence, leftmost first
Replace(s, old, new) == ReplaceFrom(s, old, new, 1)

\* whether sub occurs in s (sub in s)
Contains(s, sub) ==
    \E i \in 1..(Len(s) - Len(sub) + 1) : SubSeq(s, i, i + Len(sub) - 1) = sub

\* s[:-1]
DropLast(s) == SubSeq(s, 1, Len(s) - 1)

RECURSIVE GetColumnLetter(_)
\* openpyxl.utils.get_column_letter
GetColumnLetter(n) ==
    IF n <= 26 THEN <<Letters[n]>>
    ELSE GetColumnLetter((n - 1) \div 26) \o <<Letters[((n - 1) % 26) + 1]>>

RECURSIVE ColumnIndexFromString(_)
\* openpyxl.utils.column_index_from_string
ColumnIndexFromString(s) ==
    IF Len(s) = 0 THEN 0
    ELSE 26 * ColumnIndexFromString(DropLast(s)) + IndexOf(Letters, s[Len(s)])

\* how an f-string renders a configuration scalar
Fmt(v) ==
    CASE v.t = "str" -> v.s
      [] v.t = "int" -> IntToStr(v.n)
      [] v.t = "bool" -> IF v.b THEN <<"T", "r", "u", "e">>
                         ELSE <<"F", "a", "l", "s", "e">>

---------------------------------------------------------------------------
(* The formula compiler.                                                   *)

NoneName == <<"N", "o", "n", "e">>
NAFormula == <<"=", "N", "A", "(", ")">>

\* whether d[key] exists for the dict cell d
Has(h, d, key) == IsDict(h, d) /\ key \in DOMAIN h[d.a].m
\* d[key]
Get(h, d, key) == h[d.a].m[key]

\* whether the corner text parses: int(corner.split('$')[-1]) succeeds and
\* corner.split('$')[1] exists
CornerOK(corner) ==
    LET parts == Split(corner, "$")
    IN  Len(parts) >= 2 /\ IsInt(parts[Len(parts)])

\* arr_parts = array.split(':') and the four bounds read from its corners
ParseArray(array) ==
    LET arr_parts == Split(array, ":")
        c1 == Split(arr_parts[1], "$")
        c2 == Split(arr_parts[2], "$")
    IN  [start_row |-> ToInt(c1[Len(c1)]),
         start_col_letter |-> c1[2],
         end_col_letter |-> c2[2],
         end_row |-> ToInt(c2[Len(c2)])]

\* whether lines 379-409 run without raising for these params
ArrayOK(h, common, params) ==
    /\ Has(h, params, "array")
    /\ Has(h, params, "row_num")
    /\ Has(h, params, "columns_num")
    /\ Get(h, params, "array").t = "str"
    /\ LET arr_parts == Split(Get(h, params, "array").s, ":")
       IN  /\ Len(arr_parts) >= 2
           /\ CornerOK(arr_parts[1])
           /\ CornerOK(arr_parts[2])
    /\ Has(h, Get(h, params, "row_num"), "looup_array")
    /\ Has(h, Get(h, params, "row_num"), "lookup_value")
    /\ Has(h, Get(h, params, "columns_num"), "lookup_value")
    /\ Has(h, Get(h, params, "columns_num"), "match_type")
    /\ Has(h, common, "rows_aliases")
    /\ Has(h, Get(h, common, "rows_aliases"), "column")

\* _nan_error_handle_(formula): IFERROR(formula, error_replacement)
NanErrorHandle(h, common, formula) ==
    LET error_replacement == IF Has(h, common, "error_handle")
                             THEN Fmt(Get(h, common, "error_handle"))
                             ELSE <<"0">>
    IN  <<"I", "F", "E", "R", "R", "O", "R", "(">> \o formula
        \o <<",", " ">> \o error_replacement \o <<")">>

\* the text of lines 372-417 for params that pass ArrayOK
FormulaText(h, common, source, sheet_name, params, level_code) ==
    LET sheet_ref == IF source.dir = <<".">>
                     THEN <<"[">> \o source.name \o <<"]">> \o sheet_name
                     ELSE source.dir \o <<"\\", "[">> \o source.name
                          \o <<"]">> \o sheet_name
        full_ref == <<"'">> \o sheet_ref \o <<"'", "!">>
        array == Get(h, params, "array").s
        row_params == Get(h, params, "row_num")
        col_params == Get(h, params, "columns_num")
        a == ParseArray(array)
        key_col == Fmt(Get(h, row_params, "looup_array"))
        key_col_range == full_ref \o <<"$">> \o key_col \o <<"$">>
                         \o IntToStr(a.start_row) \o <<":", "$">> \o key_col
                         \o <<"$">> \o IntToStr(a.end_row)
        edu_col == Fmt(Get(h, Get(h, common, "rows_aliases"), "column"))
        edu_col_range == full_ref \o <<"$">> \o edu_col \o <<"$">>
                         \o IntToStr(a.start_row) \o <<":", "$">> \o edu_col
                         \o <<"$">> \o IntToStr(a.end_row)
        header_row_range == full_ref \o <<"$">> \o a.start_col_letter
                            \o <<"$">> \o IntToStr(a.start_row) \o <<":", "$">>
                            \o a.end_col_letter \o <<"$">>
                            \o IntToStr(a.start_row)
        aggregate_part ==
            <<"S", "U", "M", "P", "R", "O", "D", "U", "C", "T", "(",
              "M", "A", "X", "(", "(">>
            \o key_col_range \o <<"=">>
            \o Fmt(Get(h, row_params, "lookup_value")) \o <<")", "*", "(">>
            \o edu_col_range \o <<"=">> \o Fmt(level_code)
            \o <<")", "*", "R", "O", "W", "(">> \o key_col_range
            \o <<")", ")", ")", "-">> \o IntToStr(a.start_row - 1)
        col_match == <<"M", "A", "T", "C", "H", "(">>
                     \o Fmt(Get(h, col_params, "lookup_value")) \o <<",">>
                     \o header_row_range \o <<",">>
                     \o Fmt(Get(h, col_params, "match_type")) \o <<")">>
        formula == <<"I", "N", "D", "E", "X", "(">> \o full_ref \o array
                   \o <<",">> \o aggregate_part \o <<",">> \o col_match
                   \o <<")">>
    IN  <<"=">> \o NanErrorHandle(h, common, formula)

\* _generate_formulas: the heap after its writes to params, whether it
\* raised, and the formula it returns
GenerateFormulas(h, common, source, sheet_name, params, level_code) ==
    LET h1 == SetItem(h, params.a, "path_source_file",
                      Str(source.dir \o <<"\\">> \o source.name))
        h2 == SetItem(h1, params.a, "sheet_name", Str(sheet_name))
        h3 == SetItem(h2, params.a, "sheet_exist", Bool(TRUE))
    IN  IF sheet_name = NoneName
        THEN [h |-> SetItem(h3, params.a, "sheet_exist", Bool(FALSE)),
              raised |-> FALSE, formula |-> NAFormula]
        ELSE IF ~ArrayOK(h3, common, params)
        THEN [h |-> h3, raised |-> TRUE, formula |-> <<>>]
        ELSE [h |-> SetItem(h3, params.a, "row_condition",
                            Get(h3, Get(h3, params, "row_num"), "lookup_value")),
              raised |-> FALSE,
              formula |-> FormulaText(h3, common, source, sheet_name,
                                      params, level_code)]

\* the row matched first instead of last: MATCH(1, ..., 0)
AggregatePartFirst(start_row, end_row, keyRows, codeRows) ==
    LET hit == {r \in start_row..end_row : r \in keyRows /\ r \in codeRows}
    IN  (IF hit = {} THEN 0 ELSE CHOOSE r \in hit : \A q \in hit : r <= q)
        - (start_row - 1)

\* what the row-locating text of lines 400-406 evaluates to over the rows
\* start_row..end_row of the source sheet, keyRows being the rows whose key
\* cell equals the lookup value and codeRows those whose classification cell
\* equals level_code: MAX over (key=value)*(edu=code)*ROW, less start_row-1
AggregatePart(start_row, end_row, keyRows, codeRows) ==
    LET prod == {(IF r \in keyRows THEN 1 ELSE 0)
                     * (IF r \in codeRows THEN 1 ELSE 0) * r :
                 r \in start_row..end_row}
    IN  (CHOOSE m \in prod : \A q \in prod : q <= m) - (start_row - 1)

\* base_formula.replace(f"={row_condition}", f"={row_condition[:-1]}{row}")
RowFormula(base_formula, row_condition, row) ==
    Replace(base_formula, <<"=">> \o row_condition,
            <<"=">> \o DropLast(row_condition) \o IntToStr(row))

---------------------------------------------------------------------------
(* The workbook.  A sheet has a title, the extent openpyxl reports         *)
(* (max_row, max_column) and its cells that hold a value, by <<row, col>>. *)

Max(a, b) == IF a >= b THEN a ELSE b

NoCells == [x \in {} |-> <<>>]

\* the position of the sheet titled title in wb.sheetnames, 0 when absent
SheetIndex(wb, title) ==
    IF \E i \in DOMAIN wb : wb[i].title = title
    THEN CHOOSE i \in DOMAIN wb : wb[i].title = title
    ELSE 0

\* sheet.cell(row, col).value = value
SetCell(sheet, row, col, value) ==
    [sheet EXCEPT !.cells = (<<row, col>> :> value) @@ sheet.cells,
                  !.max_row = Max(@, row),
                  !.max_column = Max(@, col)]

\* the first column that is always taken: column 1
FirstEmptyColumnIndexOne(sheet) == 1

RECURSIVE FirstEmptyFrom(_, _)
FirstEmptyFrom(sheet, col) ==
    IF <<1, col>> \in DOMAIN sheet.cells THEN FirstEmptyFrom(sheet, col + 1)
    ELSE col
\* the column the loop of _find_first_empty_column stops at
FirstEmptyColumnIndex(sheet) == FirstEmptyFrom(sheet, 1)

\* _find_first_empty_column: the column letter; reading the empty cell
\* creates it, which extends the sheet's max_column
FindFirstEmptyColumn(sheet) == GetColumnLetter(FirstEmptyColumnIndex(sheet))
TouchFirstEmpty(sheet) ==
    [sheet EXCEPT !.max_column = Max(@, FirstEmptyColumnIndex(sheet))]

\* wb.create_sheet(title) followed by _copy_sheet_structure(src, new sheet)
CopySheetStructure(src, title) ==
    [title |-> title, max_row |-> src.max_row, max_column |-> src.max_column,
     cells |-> src.cells]

\* _create_new_workbook_with_template_sheets
CreateNewWorkbook(template_wb) ==
    [i \in DOMAIN template_wb |->
        CopySheetStructure(template_wb[i], template_wb[i].title)]

\* bool(v) for a configuration cell
Truthy(h, c) ==
    CASE c.t = "bool" -> c.b
      [] c.t = "int" -> c.n # 0
      [] c.t = "str" -> c.s # <<>>
      [] c.t = "key" -> TRUE
      [] c.t = "ref" -> IF h[c.a].t = "dict" THEN h[c.a].ks # <<>>
                        ELSE h[c.a].l # <<>>

\* _sheet_exists(path, sheet_name) on a readable workbook
SheetExists(book, sheet_name) == sheet_name \in book.sheet_names

RECURSIVE FillRows(_, _, _, _, _, _, _)
\* the loop of lines 185-190 from row to last_row
FillRows(sheet, col, row, last_row, sheet_exist, base_formula, row_condition) ==
    IF row > last_row THEN sheet
    ELSE FillRows(
            SetCell(sheet, row, col,
                    IF sheet_exist
                    THEN RowFormula(base_formula, row_condition, row)
                    ELSE NAFormula),
            col, row + 1, last_row, sheet_exist, base_formula, row_condition)

\* _fill_sheet: the sheet after the call, the recorded first column, and
\* whether the call raised (the header is written before anything can raise)
FillSheet(h, common, first_col, sheet, formula, params, book) ==
    LET start_col == FindFirstEmptyColumn(sheet)
        col == ColumnIndexFromString(start_col)
        first == IF first_col = <<>> THEN start_col ELSE first_col
        s1 == SetCell(TouchFirstEmpty(sheet), 1, col,
                      Get(h, params, "sheet_col_name").s)
        last_row == s1.max_row
        checking == Has(h, common, "checking_list_existence")
                    /\ Truthy(h, Get(h, common, "checking_list_existence"))
        sheet_exist == IF checking
                       THEN SheetExists(book, Get(h, params, "sheet_name").s)
                       ELSE Get(h, params, "sheet_exist").b
        raises == \/ ~Has(h, common, "checking_list_existence")
                  \/ checking /\ ~book.readable
                  \/ /\ sheet_exist
                     /\ last_row >= 2
                     /\ \/ ~Has(h, params, "row_condition")
                        \/ Get(h, params, "row_condition").t # "str"
    IN  [start_col |-> start_col,
         first_col |-> first,
         raised |-> raises,
         sheet_exist |-> sheet_exist,
         sheet |-> IF raises THEN s1
                   ELSE FillRows(s1, col, 2, last_row, sheet_exist, formula,
                                 IF sheet_exist /\ last_row >= 2
                                 THEN Get(h, params, "row_condition").s
                                 ELSE <<>>)]

---------------------------------------------------------------------------
(* File matching.                                                          *)

LowerLetters == <<"a", "b", "c", "d", "e", "f", "g", "h", "i", "j", "k", "l",
                  "m", "n", "o", "p", "q", "r", "s", "t", "u", "v", "w", "x",
                  "y", "z">>

\* Letters beyond ASCII are written by name: a Russian letter as "*" and its
\* transliteration, a letter of another alphabet as "~" and its base letter.
CyrUpper == <<"*A", "*V", "*E", "*Z", "*K", "*M", "*N", "*O", "*R", "*S",
              "*CH", "*YA">>
CyrLower == <<"*a", "*v", "*e", "*z", "*k", "*m", "*n", "*o", "*r", "*s",
              "*ch", "*ya">>
OtherUpper == <<"~E">>
OtherLower == <<"~e">>

UpperChars == Letters \o CyrUpper \o OtherUpper
LowerChars == LowerLetters \o CyrLower \o OtherLower

\* s.lower()
Lower(s) == [i \in DOMAIN s |->
                IF IndexOf(UpperChars, s[i]) > 0
                THEN LowerChars[IndexOf(UpperChars, s[i])] ELSE s[i]]

\* the elements of a list cell
Items(h, c) == h[c.a].l

\* _match_patterns(filename, include_optional), read from the tree at common
MatchPatterns(h, common, filename, include_optional) ==
    LET pats == Get(h, common, "search_patterns")
        required == Items(h, Get(h, pats, "required"))
        optional == Items(h, Get(h, pats, "optional"))
        name == Lower(filename)
    IN  IF ~include_optional
        THEN \E i \in DOMAIN required : Contains(name, Lower(required[i].s))
        ELSE \E i \in DOMAIN optional, j \in DOMAIN required :
                /\ Contains(name, Lower(optional[i].s))
                /\ Contains(name, Lower(required[j].s))

RECURSIVE SelectFiles(_, _, _, _, _)
SelectFiles(h, common, dir, names, include_optional) ==
    IF names = <<>> THEN <<>>
    ELSE (IF MatchPatterns(h, common, Head(names), include_optional)
          THEN <<[dir |-> dir, name |-> Head(names)]>> ELSE <<>>)
         \o SelectFiles(h, common, dir, Tail(names), include_optional)
\* _find_files(path, include_optional) over the listing of the year's folder
FindFiles(h, common, folder, include_optional) ==
    SelectFiles(h, common, folder.dir, folder.names, include_optional)

\* Path(name).stem
Stem(name) ==
    LET dots == {i \in DOMAIN name : name[i] = "."}
        last == IF dots = {} THEN 0
                ELSE CHOOSE i \in dots : \A j \in dots : j <= i
    IN  IF last > 1 /\ last < Len(name) THEN SubSeq(name, 1, last - 1)
        ELSE name

---------------------------------------------------------------------------
(* The configurations, templates and folders a run is started on.          *)

\* a dict literal: its items in the order written
DictOf(pairs) ==
    Dict([i \in DOMAIN pairs |-> pairs[i][1]],
         [k \in {pairs[i][1] : i \in DOMAIN pairs} |->
             pairs[CHOOSE i \in DOMAIN pairs : pairs[i][1] = k][2]])

Txt(s) == Str(s)

\* a handler of the function table, with or without its range
Handler(with_array) ==
    DictOf((IF with_array
            THEN << <<"array", Txt(<<"$", "A", "$", "2", ":", "$", "C", "$", "5">>)>> >>
            ELSE <<>>)
           \o << <<"row_num", DictOf(<< <<"looup_array", Txt(<<"D">>)>>,
                                        <<"lookup_value", Txt(<<"A", "2">>)>> >>)>>,
                 <<"columns_num", DictOf(<< <<"lookup_value", Txt(<<"B", "1">>)>>,
                                            <<"match_type", Num(0)>> >>)>> >>)

\* the "common" tree: sheets b (codes 1 and 3) and m (code 2); columns p
\* (sheet S1), q (sheet declared "None") and r (no handler)
Common(checking, q_array) ==
    DictOf(<<
        <<"search_patterns",
            DictOf(<< <<"required", List(<<Txt(<<"V">>)>>)>>,
                      <<"optional", List(<<Txt(<<"o">>)>>)>> >>)>>,
        <<"checking_list_existence", Bool(checking)>>,
        <<"output_sheets",
            DictOf(<< <<"to_list", Key("rows_aliases")>>,
                      <<"name_aliases",
                          DictOf(<< <<"b", Txt(<<"B">>)>>,
                                    <<"m", Txt(<<"M">>)>> >>)>> >>)>>,
        <<"rows_aliases",
            DictOf(<< <<"column", Txt(<<"B">>)>>,
                      <<"aliases",
                          DictOf(<< <<"b", List(<<Num(1), Num(3)>>)>>,
                                    <<"m", Num(2)>> >>)>> >>)>>,
        <<"list_aliases",
            DictOf(<< <<"aliases",
                          DictOf(<< <<"p", Txt(<<"S", "1">>)>>,
                                    <<"q", Txt(NoneName)>>,
                                    <<"r", Txt(<<"S", "3">>)>> >>)>> >>)>>,
        <<"funcs",
            DictOf(<< <<"p", Handler(TRUE)>>, <<"q", Handler(q_array)>> >>)>>,
        <<"summary_sheet",
            List(<< DictOf(<< <<"name", Txt(<<"S">>)>>,
                              <<"range_col", Txt(<<"A">>)>>,
                              <<"criteria_col", Txt(<<"A">>)>> >>) >>)>>
    >>)

\* the period overlays: nothing; other file patterns; a range for handler q;
\* a real sheet for column q
Overlays ==
    { EmptyDict,
      DictOf(<< <<"search_patterns",
                  DictOf(<< <<"required", List(<<Txt(<<"x">>)>>)>> >>)>> >>),
      DictOf(<< <<"funcs",
                  DictOf(<< <<"q", DictOf(<< <<"array",
                      Txt(<<"$", "B", "$", "3", ":", "$", "D", "$", "4">>)>> >>)>> >>)>> >>),
      DictOf(<< <<"list_aliases",
                  DictOf(<< <<"aliases",
                      DictOf(<< <<"q", Txt(<<"S", "2">>)>> >>)>> >>)>> >>) }

\* the configuration file: "common" and one overlay per year
Config(checking, q_array, ov1, ov2) ==
    DictOf(<< <<"common", Common(checking, q_array)>>,
              <<"2020", ov1>>, <<"2021", ov2>> >>)

\* the last row of the template's sheets
LastRow == 3

\* a template sheet: a header row (<<>> for an empty cell) and the key column
TemplateSheet(title, header) ==
    [title |-> title, max_row |-> LastRow, max_column |-> Len(header),
     cells |-> [x \in {<<1, c>> : c \in {i \in DOMAIN header : header[i] # <<>>}}
                      \cup {<<r, 1>> : r \in 2..LastRow} |->
                  IF x[1] = 1 THEN header[x[2]] ELSE <<"k">> \o IntToStr(x[1])]]

\* the title of the placeholder sheet that _remove_sheet deletes
TemplateTitle == <<"s", "h", "a", "b", "l", "o", "n">>

\* the template workbooks: the placeholder alone; the two output sheets with
\* header rows of different widths, one with a gap; the first output sheet alone
Templates ==
    { << TemplateSheet(TemplateTitle, << <<"K">>, <<"N">> >>) >>,
      << TemplateSheet(<<"B">>, << <<"K">>, <<"N">> >>),
         TemplateSheet(<<"M">>, << <<"K">>, <<>>, <<"N">> >>) >>,
      << TemplateSheet(<<"B">>, << <<"K">>, <<"N">> >>) >> }

\* the folder of each year: its path and the files in it
Folders ==
    ("2020" :> [dir |-> <<"d", "0">>,
                names |-> << <<"v", "1", ".", "t">>, <<"x", "2", ".", "t">> >>])
    @@ ("2021" :> [dir |-> <<"d", "1">>,
                   names |-> << <<"v", "1", ".", "t">>, <<"x", "2", ".", "t">> >>])

\* what pandas finds in a source workbook: it cannot be read; it has the sheets
\* S1 and S2; it also has a sheet titled "None"
Books ==
    { [readable |-> FALSE, sheet_names |-> {}],
      [readable |-> TRUE, sheet_names |-> {<<"S", "1">>, <<"S", "2">>}],
      [readable |-> TRUE, sheet_names |-> {<<"S", "1">>, NoneName}] }

---------------------------------------------------------------------------
(* The tag matcher.                                                        *)

\* the characters of the class [A-Za-zА-Яа-яЁё0-9\-] without the hyphen
ClassLetters ==
    {Letters[i] : i \in DOMAIN Letters}
    \cup {LowerLetters[i] : i \in DOMAIN LowerLetters}
    \cup {CyrUpper[i] : i \in DOMAIN CyrUpper}
    \cup {CyrLower[i] : i \in DOMAIN CyrLower}
    \cup {Digits[i] : i \in DOMAIN Digits}

\* a class in which the hyphen separates words
WordCharNoHyphen(c) == c \in ClassLetters

\* whether c is in the class [A-Za-zА-Яа-яЁё0-9\-]
WordChar(c) == c \in ClassLetters \cup {"-"}

RECURSIVE FindAllFrom(_, _)
\* the matches of [...]+ in s from position i on: leftmost, each as long as
\* it can be
FindAllFrom(s, i) ==
    IF \A j \in i..Len(s) : ~WordChar(s[j]) THEN <<>>
    ELSE Bind(Min({j \in i..Len(s) : WordChar(s[j])}),
              LAMBDA j :
                 LET stop == Min({k \in j..Len(s) : ~WordChar(s[k])}
                                 \cup {Len(s) + 1})
                 IN  <<SubSeq(s, j, stop - 1)>> \o FindAllFrom(s, stop))

\* _header_matches(header, keywords)
HeaderMatches(header, keywords) ==
    LET words == FindAllFrom(Lower(header), 1)
    IN  \A i \in DOMAIN keywords :
            \E j \in DOMAIN words : words[j] = Lower(keywords[i])

---------------------------------------------------------------------------
(* The aggregation compiler, per-header mode.                              *)

\* the text of a dict key
KeyText(k) == <<k>>

\* self.common["output_sheets"]["name_aliases"].values()
OutputSheetNames(h, common) ==
    LET na == h[Get(h, Get(h, common, "output_sheets"), "name_aliases").a]
    IN  [i \in DOMAIN na.ks |-> Fmt(na.m[na.ks[i]])]

RECURSIVE ScanHeaders(_, _, _)
\* the while loop of _collect_headers on one sheet, from column col
ScanHeaders(sheet, col, headers) ==
    IF <<1, col>> \notin DOMAIN sheet.cells \/ sheet.cells[<<1, col>>] = <<>>
    THEN [headers |-> headers, stop |-> col]
    ELSE LET val == sheet.cells[<<1, col>>]
         IN  ScanHeaders(sheet, col + 1,
                         IF \E i \in DOMAIN headers : headers[i] = val
                         THEN headers ELSE Append(headers, val))

RECURSIVE CollectFrom(_, _, _, _, _)
CollectFrom(names, i, wb, first_idx, headers) ==
    IF i > Len(names) THEN [wb |-> wb, headers |-> headers]
    ELSE LET k == SheetIndex(wb, names[i])
         IN  IF k = 0 THEN CollectFrom(names, i + 1, wb, first_idx, headers)
             ELSE LET r == ScanHeaders(wb[k], first_idx, headers)
                  IN  CollectFrom(names, i + 1,
                          [wb EXCEPT ![k].max_column = Max(@, r.stop)],
                          first_idx, r.headers)
\* _collect_headers(wb): the headers, and the workbook with the cells it read
CollectHeaders(h, common, wb, first_col) ==
    CollectFrom(OutputSheetNames(h, common), 1, wb,
                ColumnIndexFromString(first_col), <<>>)

\* the sheets _collect_headers scans: the output sheets present in wb
ScannedSheets(h, common, wb) ==
    {wb[k].title : k \in {j \in DOMAIN wb :
        \E i \in DOMAIN OutputSheetNames(h, common) :
            OutputSheetNames(h, common)[i] = wb[j].title}}

\* one SUMIF(...) of _get_sumif_parts_for_column, formatted for row
SumifPart(sheet_name, cond_col, crit_col, col_letter, row) ==
    <<"S", "U", "M", "I", "F", "(", "'">> \o sheet_name \o <<"'", "!", "$">>
    \o cond_col \o <<":", "$">> \o cond_col \o <<",", "$">> \o crit_col
    \o IntToStr(row) \o <<",", "'">> \o sheet_name \o <<"'", "!">>
    \o col_letter \o <<":">> \o col_letter \o <<")">>

RECURSIVE SumifParts(_, _, _, _, _, _, _, _)
\* _get_sumif_parts_for_column, joined with " + " ("" when no part)
SumifParts(names, i, wb, first_idx, header, cond_col, crit_col, row) ==
    IF i > Len(names) THEN <<>>
    ELSE LET k == SheetIndex(wb, names[i])
             hit == IF k = 0 THEN {}
                    ELSE {c \in first_idx..wb[k].max_column :
                             /\ <<1, c>> \in DOMAIN wb[k].cells
                             /\ wb[k].cells[<<1, c>>] = header}
             tail == SumifParts(names, i + 1, wb, first_idx, header,
                                cond_col, crit_col, row)
         IN  IF hit = {} THEN tail
             ELSE LET c == CHOOSE c \in hit : \A d \in hit : c <= d
                      part == SumifPart(names[i], cond_col, crit_col,
                                        GetColumnLetter(c), row)
                  IN  IF tail = <<>> THEN part
                      ELSE part \o <<" ", "+", " ">> \o tail

RECURSIVE WriteSummaryRows(_, _, _, _, _, _, _, _, _, _)
\* the loops of lines 292-297 from (i, row): the summary sheet after them
WriteSummaryRows(sheet, names, wb, first_idx, headers, start, i, row, cond_col, crit_col) ==
    IF i > Len(headers) THEN sheet
    ELSE IF row > sheet.max_row
    THEN WriteSummaryRows(sheet, names, wb, first_idx, headers, start, i + 1,
                          2, cond_col, crit_col)
    ELSE LET parts == SumifParts(names, 1, wb, first_idx, headers[i],
                                 cond_col, crit_col, row)
         IN  WriteSummaryRows(
                 IF parts = <<>> THEN sheet
                 ELSE SetCell(sheet, row, start + i - 1, <<"=">> \o parts),
                 names, wb, first_idx, headers, start, i, row + 1,
                 cond_col, crit_col)

RECURSIVE WriteHeaders(_, _, _, _)
\* the loop of lines 289-290
WriteHeaders(sheet, headers, start, i) ==
    IF i > Len(headers) THEN sheet
    ELSE WriteHeaders(SetCell(sheet, 1, start + i - 1, headers[i]),
                      headers, start, i + 1)

\* _prepare_summary_sheet: the workbook with the summary sheet in it
PrepareSummarySheet(wb, name) ==
    IF SheetIndex(wb, name) > 0 THEN wb
    ELSE IF wb = <<>>
    THEN <<[title |-> name, max_row |-> 1, max_column |-> 1, cells |-> NoCells]>>
    ELSE Append(wb, CopySheetStructure(wb[1], name))

\* _create_summary_sheet without tag groups: the workbook after it, the
\* column its first header went to and the headers it wrote in row 1, or
\* raised when _collect_headers has no recorded first column to start from
CreateSummaryPerHeader(h, common, wb, first_col, summary_sheet) ==
    LET name == Fmt(Get(h, summary_sheet, "name"))
        wb1 == PrepareSummarySheet(wb, name)
        k == SheetIndex(wb1, name)
        start == FirstEmptyColumnIndex(wb1[k])
        wb2 == [wb1 EXCEPT ![k] = TouchFirstEmpty(@)]
        cond_col == Fmt(Get(h, summary_sheet, "range_col"))
        crit_col == Fmt(Get(h, summary_sheet, "criteria_col"))
        names == OutputSheetNames(h, common)
        raises == first_col = <<>> /\ ScannedSheets(h, common, wb2) # {}
    IN  IF raises
        THEN [raised |-> TRUE, wb |-> wb2, start |-> start, headers |-> <<>>]
        ELSE LET r == CollectHeaders(h, common, wb2, first_col)
                 first_idx == ColumnIndexFromString(first_col)
                 s1 == WriteHeaders(r.wb[k], r.headers, start, 1)
                 wb3 == [r.wb EXCEPT ![k] = s1]
             IN  [raised |-> FALSE, start |-> start, headers |-> r.headers,
                  wb |-> [wb3 EXCEPT ![k] =
                            WriteSummaryRows(s1, names, wb3, first_idx,
                                r.headers, start, 1, 2, cond_col, crit_col)]]

---------------------------------------------------------------------------
(* The aggregation compiler, tag-group mode.                               *)

\* s.upper(), character by character
Upper(s) == [i \in DOMAIN s |->
                IF IndexOf(LowerChars, s[i]) > 0
                THEN UpperChars[IndexOf(LowerChars, s[i])] ELSE s[i]]

\* whether c is a cased letter
Cased(c) == IndexOf(UpperChars, c) > 0 \/ IndexOf(LowerChars, c) > 0

\* s.title(): a letter that follows a letter in lower case, any other letter
\* in upper case
Title(s) == [i \in DOMAIN s |->
                IF i > 1 /\ Cased(s[i - 1]) THEN Lower(<<s[i]>>)[1]
                ELSE Upper(<<s[i]>>)[1]]

RECURSIVE JoinFrom(_, _, _)
JoinFrom(words, sep, i) ==
    IF i > Len(words) THEN <<>>
    ELSE IF i = Len(words) THEN words[i]
    ELSE words[i] \o sep \o JoinFrom(words, sep, i + 1)
\* sep.join(words)
Join(words, sep) == JoinFrom(words, sep, 1)

\* the keyword lists of summary_sheet["tag_groups"], as texts
TagGroups(h, tag_groups) ==
    [i \in DOMAIN Items(h, tag_groups) |->
        [j \in DOMAIN Items(h, Items(h, tag_groups)[i]) |->
            Fmt(Items(h, Items(h, tag_groups)[i])[j])]]

\* "_".join(words).title()
TagName(words) == Title(Join(words, <<"_">>))

\* the key under which the dict of line 302 stores groups[i]
TagKey(groups, i) == TagName(groups[i])

\* {"_".join(words).title(): words for words in tag_groups}: the items in
\* the dict's order; a key keeps its first position and takes its last value
TagDict(groups) ==
    LET firsts == SelectSeq([i \in DOMAIN groups |-> i],
                     LAMBDA i : \A j \in 1..(i - 1) :
                                    TagKey(groups, j) # TagKey(groups, i))
    IN  [n \in DOMAIN firsts |->
            [name |-> TagKey(groups, firsts[n]),
             keywords |->
                groups[CHOOSE j \in DOMAIN groups :
                          /\ TagKey(groups, j) = TagKey(groups, firsts[n])
                          /\ \A k \in DOMAIN groups :
                                TagKey(groups, k) = TagKey(groups, firsts[n])
                                    => k <= j]]]

\* str(src_sheet.cell(1, col).value or "")
HeaderText(sheet, col) ==
    IF <<1, col>> \in DOMAIN sheet.cells THEN sheet.cells[<<1, col>>] ELSE <<>>

\* matched_cols of _get_sumif_parts_for_tag on one sheet, in column order
MatchedCols(sheet, first_idx, keywords) ==
    SelectSeq([i \in 1..Max(0, sheet.max_column - first_idx + 1) |->
                  first_idx + i - 1],
              LAMBDA c : HeaderMatches(Lower(HeaderText(sheet, c)), keywords))

RECURSIVE SumifInner(_, _, _, _, _, _)
\* the SUMIFs of the matched columns of one sheet joined with " + "
SumifInner(sheet_name, cols, i, cond_col, crit_col, row) ==
    LET part == SumifPart(sheet_name, cond_col, crit_col,
                          GetColumnLetter(cols[i]), row)
    IN  IF i = Len(cols) THEN part
        ELSE part \o <<" ", "+", " ">>
             \o SumifInner(sheet_name, cols, i + 1, cond_col, crit_col, row)

RECURSIVE SumifPartsForTag(_, _, _, _, _, _, _, _)
\* _get_sumif_parts_for_tag, joined with " + " ("" when no part)
SumifPartsForTag(names, i, wb, first_idx, keywords, cond_col, crit_col, row) ==
    IF i > Len(names) THEN <<>>
    ELSE LET k == SheetIndex(wb, names[i])
             cols == IF k = 0 THEN <<>>
                     ELSE MatchedCols(wb[k], first_idx, keywords)
             tail == SumifPartsForTag(names, i + 1, wb, first_idx, keywords,
                                      cond_col, crit_col, row)
         IN  IF cols = <<>> THEN tail
             ELSE LET inner == SumifInner(names[i], cols, 1, cond_col,
                                          crit_col, row)
                      part == IF Len(cols) = 1 THEN inner
                              ELSE <<"(">> \o inner \o <<")">>
                  IN  IF tail = <<>> THEN part
                      ELSE part \o <<" ", "+", " ">> \o tail

RECURSIVE WriteTagRows(_, _, _, _, _, _, _, _, _, _)
\* the loops of lines 307-312 from (i, row): the summary sheet after them
WriteTagRows(sheet, names, wb, first_idx, tags, start, i, row, cond_col, crit_col) ==
    IF i > Len(tags) THEN sheet
    ELSE IF row > sheet.max_row
    THEN WriteTagRows(sheet, names, wb, first_idx, tags, start, i + 1, 2,
                      cond_col, crit_col)
    ELSE LET parts == SumifPartsForTag(names, 1, wb, first_idx,
                                       tags[i].keywords, cond_col, crit_col,
                                       row)
         IN  WriteTagRows(
                 IF parts = <<>> THEN sheet
                 ELSE SetCell(sheet, row, start + i - 1, <<"=">> \o parts),
                 names, wb, first_idx, tags, start, i, row + 1,
                 cond_col, crit_col)

\* _create_summary_sheet with tag groups: the workbook after it, or raised
\* when _get_sumif_parts_for_tag has no recorded first column to start from
CreateSummaryTags(h, common, wb, first_col, summary_sheet) ==
    LET name == Fmt(Get(h, summary_sheet, "name"))
        wb1 == PrepareSummarySheet(wb, name)
        k == SheetIndex(wb1, name)
        start == FirstEmptyColumnIndex(wb1[k])
        wb2 == [wb1 EXCEPT ![k] = TouchFirstEmpty(@)]
        cond_col == Fmt(Get(h, summary_sheet, "range_col"))
        crit_col == Fmt(Get(h, summary_sheet, "criteria_col"))
        names == OutputSheetNames(h, common)
        tags == TagDict(TagGroups(h, Get(h, summary_sheet, "tag_groups")))
        headers == [i \in DOMAIN tags |-> tags[i].name]
        s1 == WriteHeaders(wb2[k], headers, start, 1)
        wb3 == [wb2 EXCEPT ![k] = s1]
        raises == /\ first_col = <<>>
                  /\ ScannedSheets(h, common, wb3) # {}
                  /\ s1.max_row >= 2
    IN  IF raises
        THEN [raised |-> TRUE, wb |-> wb3, start |-> start,
              headers |-> headers]
        ELSE [raised |-> FALSE, start |-> start, headers |-> headers,
              wb |-> [wb3 EXCEPT ![k] =
                        WriteTagRows(s1, names, wb3,
                            ColumnIndexFromString(first_col), tags, start,
                            1, 2, cond_col, crit_col)]]

\* whether summary_sheet.get("tag_groups", None) is truthy
HasTagGroups(h, summary_sheet) ==
    /\ Has(h, summary_sheet, "tag_groups")
    /\ Truthy(h, Get(h, summary_sheet, "tag_groups"))

\* _create_summary_sheet for a sheet whose name is not "None"
CreateSummary(h, common, wb, first_col, summary_sheet) ==
    IF HasTagGroups(h, summary_sheet)
    THEN CreateSummaryTags(h, common, wb, first_col, summary_sheet)
    ELSE CreateSummaryPerHeader(h, common, wb, first_col, summary_sheet)

---------------------------------------------------------------------------
(* process_years and _process_data_for_year.                               *)

NotCommon(k) == k # "common"

\* {k: v for k, v in self.config.items() if k != "common"}
YearsData(h, config) ==
    LET o == h[config.a]
    IN  Dict(SelectSeq(o.ks, NotCommon),
             [k \in {x \in DOMAIN o.m : NotCommon(x)} |-> o.m[k]])

InitLoc ==
    [years_to_process |-> <<>>, yi |-> 0, files |-> <<>>, fi |-> 0,
     to_list |-> "", to_col |-> "", list_aliases |-> NoRes, col_aliases |-> NoRes,
     name_overrides |-> NoRes, si |-> 0, sheet |-> 0, sheet_name |-> <<>>,
     ci |-> 0, col_key |-> "", params |-> NoRes, sheet_source |-> <<>>,
     code_list |-> <<>>, ki |-> 0, sumi |-> 0]

\* nothing done yet in the current year
InitObs ==
    [failure |-> "", first_fill |-> NoCells, scanned |-> NoCells,
     columns |-> <<>>, compiled |-> 0, caught |-> 0, summaries |-> 0]

\* __init__: the configuration is loaded and the attributes are set
Init ==
    \E checking \in BOOLEAN, q_array \in BOOLEAN, ov1 \in Overlays,
       ov2 \in Overlays, template \in Templates, book \in Books :
        /\ checking \/ book.sheet_names = {}
        /\ LET cfg == Config(checking, q_array, ov1, ov2)
               r == Load(<<>>, cfg)
               h1 == Append(r.h, YearsData(r.h, r.c))
           IN  /\ heap = h1
               /\ self = [config |-> r.c,
                          common_init |-> Get(r.h, r.c, "common"),
                          common |-> Get(r.h, r.c, "common"),
                          years_data |-> Ref(Len(h1)),
                          first_col_after_template |-> <<>>]
               /\ env = [cfg |-> cfg, template |-> template,
                         folders |-> Folders, book |-> book,
                         include_optional |-> FALSE]
        /\ pc = "init"
        /\ loc = InitLoc
        /\ new_wb = <<>>
        /\ saved = <<>>
        /\ obs = InitObs
        /\ arg = NoRes
        /\ res = NoRes

\* _get_years_to_process(selected_years)
GetYearsToProcess(h, years_data, selected_years) ==
    IF selected_years.kind = "all" THEN h[years_data.a].ks
    ELSE LET want == selected_years.years
         IN  [i \in 1..Cardinality({j \in DOMAIN want :
                                       want[j] \in DOMAIN h[years_data.a].m}) |->
                want[CHOOSE j \in DOMAIN want :
                        /\ want[j] \in DOMAIN h[years_data.a].m
                        /\ Cardinality({q \in 1..j :
                               want[q] \in DOMAIN h[years_data.a].m}) = i]]

\* the selected_years arguments of a call: "all", or a list of years
SelectedYears ==
    { [kind |-> "all", years |-> <<>>],
      [kind |-> "list", years |-> <<"2021", "2019">>] }

\* process_years is called: line 48
ProcessYears ==
    /\ pc = "init"
    /\ \E selected_years \in SelectedYears :
        loc' = [loc EXCEPT
                  !.years_to_process =
                      GetYearsToProcess(heap, self.years_data, selected_years),
                  !.yi = 1]
    /\ pc' = "year"
    /\ UNCHANGED <<heap, self, env, new_wb, saved, obs, arg, res>>

\* the year at the head of the loop
Year == loc.years_to_process[loc.yi]

\* lines 51-67 for one year: the files are found with the tree self.common
\* holds on entry, the template is copied, and only then is self.common
\* replaced by the merge of common_init and the year's overlay
StartYear ==
    /\ pc = "year"
    /\ loc.yi <= Len(loc.years_to_process)
    /\ LET files == FindFiles(heap, self.common, env.folders[Year],
                              env.include_optional)
           r == DeepMergeDicts(heap, self.common_init,
                               Get(heap, self.years_data, Year))
       IN  /\ loc' = [loc EXCEPT !.files = files, !.fi = 1]
           /\ new_wb' = CreateNewWorkbook(env.template)
           /\ heap' = r.h
           /\ self' = [self EXCEPT !.common = r.c]
    /\ obs' = InitObs
    /\ pc' = "file"
    /\ UNCHANGED <<env, saved, arg, res>>

\* line 61 raises: the template cannot be loaded
TemplateLoadFails ==
    /\ pc = "year"
    /\ loc.yi <= Len(loc.years_to_process)
    /\ loc' = [loc EXCEPT !.files = FindFiles(heap, self.common,
                                       env.folders[Year], env.include_optional),
                          !.fi = 1]
    /\ obs' = [InitObs EXCEPT !.failure = "template"]
    /\ pc' = "raised"
    /\ UNCHANGED <<heap, self, env, new_wb, saved, arg, res>>

\* the loop over the years is exhausted: process_years returns
YearLoopEnd ==
    /\ pc = "year"
    /\ loc.yi > Len(loc.years_to_process)
    /\ pc' = "done"
    /\ UNCHANGED <<heap, self, env, loc, new_wb, saved, obs, arg, res>>

\* whether lines 433-443 find every key they read
AxesOK(h, common) ==
    /\ Has(h, common, "output_sheets")
    /\ Has(h, Get(h, common, "output_sheets"), "to_list")
    /\ LET os == Get(h, common, "output_sheets")
           to_list == Get(h, os, "to_list").k
           to_col == IF Has(h, os, "to_col") THEN Get(h, os, "to_col").k
                     ELSE IF to_list = "rows_aliases" THEN "list_aliases"
                     ELSE "rows_aliases"
       IN  /\ Has(h, common, to_list)
           /\ Has(h, Get(h, common, to_list), "aliases")
           /\ Has(h, common, to_col)
           /\ Has(h, Get(h, common, to_col), "aliases")

\* _process_data_for_year is entered for the next file: lines 429-443
EnterFile ==
    /\ pc = "file"
    /\ loc.fi <= Len(loc.files)
    /\ IF AxesOK(heap, self.common)
       THEN LET os == Get(heap, self.common, "output_sheets")
                to_list == Get(heap, os, "to_list").k
                to_col == IF Has(heap, os, "to_col")
                          THEN Get(heap, os, "to_col").k
                          ELSE IF to_list = "rows_aliases" THEN "list_aliases"
                          ELSE "rows_aliases"
            IN  /\ loc' = [loc EXCEPT
                     !.to_list = to_list,
                     !.to_col = to_col,
                     !.name_overrides =
                         IF Has(heap, os, "name_aliases")
                         THEN Get(heap, os, "name_aliases") ELSE NoRes,
                     !.list_aliases =
                         Get(heap, Get(heap, self.common, to_list), "aliases"),
                     !.col_aliases =
                         Get(heap, Get(heap, self.common, to_col), "aliases"),
                     !.si = 1]
                /\ pc' = "sheet"
                /\ obs' = obs
       ELSE /\ pc' = "raised"
            /\ obs' = [obs EXCEPT !.failure = "axes"]
            /\ loc' = loc
    /\ UNCHANGED <<heap, self, env, new_wb, saved, arg, res>>

\* the loop over the files is exhausted
FileLoopEnd ==
    /\ pc = "file"
    /\ loc.fi > Len(loc.files)
    /\ loc' = [loc EXCEPT !.sumi = 1]
    /\ pc' = "summary"
    /\ UNCHANGED <<heap, self, env, new_wb, saved, obs, arg, res>>

\* the key at position i of a dict cell
KeyAt(h, d, i) == h[d.a].ks[i]

\* lines 445-453: the output sheet of the next sheet key is taken from the
\* workbook or created as a copy of its first sheet
EnterSheet ==
    /\ pc = "sheet"
    /\ loc.si <= Len(heap[loc.list_aliases.a].ks)
    /\ LET sheet_key == KeyAt(heap, loc.list_aliases, loc.si)
           sheet_name == IF Has(heap, loc.name_overrides, sheet_key)
                         THEN Fmt(Get(heap, loc.name_overrides, sheet_key))
                         ELSE KeyText(sheet_key)
           wb == IF SheetIndex(new_wb, sheet_name) = 0
                 THEN Append(new_wb, CopySheetStructure(new_wb[1], sheet_name))
                 ELSE new_wb
       IN  /\ new_wb' = wb
           /\ loc' = [loc EXCEPT !.sheet_name = sheet_name,
                                 !.sheet = SheetIndex(wb, sheet_name),
                                 !.ci = 1]
    /\ pc' = "col"
    /\ UNCHANGED <<heap, self, env, saved, obs, arg, res>>

\* the loop over the sheet keys is exhausted: the next file
SheetLoopEnd ==
    /\ pc = "sheet"
    /\ loc.si > Len(heap[loc.list_aliases.a].ks)
    /\ loc' = [loc EXCEPT !.fi = @ + 1]
    /\ pc' = "file"
    /\ UNCHANGED <<heap, self, env, new_wb, saved, obs, arg, res>>

\* lines 458-465: level_code, sheet_source and list_key of the current
\* (sheet key, column key) pair
Axis ==
    LET sheet_key == KeyAt(heap, loc.list_aliases, loc.si)
        col_key == KeyAt(heap, loc.col_aliases, loc.ci)
    IN  IF loc.to_list = "rows_aliases"
        THEN [level_code |-> Get(heap, loc.list_aliases, sheet_key),
              sheet_source |-> Get(heap, loc.col_aliases, col_key),
              list_key |-> col_key, col_key |-> col_key]
        ELSE [level_code |-> Get(heap, loc.col_aliases, col_key),
              sheet_source |-> Get(heap, loc.list_aliases, sheet_key),
              list_key |-> sheet_key, col_key |-> col_key]

\* a lookup that finds a handler for every key
HasHandlerAlways(h, common, list_key) == TRUE

\* list_key in self.common["funcs"]
HasHandler(h, common, list_key) ==
    list_key \in DOMAIN h[Get(h, common, "funcs").a].m

\* line 467-468: the key has no handler, the loop continues
SkipKey ==
    /\ pc = "col"
    /\ loc.ci <= Len(heap[loc.col_aliases.a].ks)
    /\ ~HasHandler(heap, self.common, Axis.list_key)
    /\ loc' = [loc EXCEPT !.ci = @ + 1]
    /\ UNCHANGED <<heap, self, env, pc, new_wb, saved, obs, arg, res>>

\* lines 471-483: the handler's params get the column label, and the sheet
\* and the list of codes are settled; self.common["funcs"][list_key] raises
\* KeyError when the key is not in the table
PrepareKey ==
    /\ pc = "col"
    /\ loc.ci <= Len(heap[loc.col_aliases.a].ks)
    /\ HasHandler(heap, self.common, Axis.list_key)
    /\ IF Has(heap, Get(heap, self.common, "funcs"), Axis.list_key)
       THEN LET params == Get(heap, Get(heap, self.common, "funcs"),
                              Axis.list_key)
                name == loc.files[loc.fi].name
                label == Stem(name) \o <<"_">> \o KeyText(Axis.col_key)
                h1 == SetItem(heap, params.a, "sheet_col_name", Str(label))
                sheet_source ==
                    IF Has(h1, params, "actual_name")
                       /\ Get(h1, params, "actual_name").t = "str"
                    THEN Get(h1, params, "actual_name")
                    ELSE Axis.sheet_source
                level_code == Axis.level_code
            IN  /\ heap' = h1
                /\ loc' = [loc EXCEPT
                     !.params = params,
                     !.col_key = Axis.col_key,
                     !.sheet_source = Fmt(sheet_source),
                     !.code_list = IF level_code.t = "ref"
                                      /\ heap[level_code.a].t = "list"
                                   THEN Items(heap, level_code)
                                   ELSE <<level_code>>,
                     !.ki = 1]
                /\ pc' = "code"
                /\ obs' = obs
       ELSE /\ pc' = "raised"
            /\ obs' = [obs EXCEPT !.failure = "handler"]
            /\ UNCHANGED <<heap, loc>>
    /\ UNCHANGED <<self, env, new_wb, saved, arg, res>>

\* the loop over the column keys is exhausted: the next sheet key
ColLoopEnd ==
    /\ pc = "col"
    /\ loc.ci > Len(heap[loc.col_aliases.a].ks)
    /\ loc' = [loc EXCEPT !.si = @ + 1]
    /\ pc' = "sheet"
    /\ UNCHANGED <<heap, self, env, new_wb, saved, obs, arg, res>>

\* what _generate_formulas does for the code at the head of the loop
Generated ==
    GenerateFormulas(heap, self.common, loc.files[loc.fi], loc.sheet_source,
                     loc.params, loc.code_list[loc.ki])

\* lines 487-499 for one code: the formula is compiled and _fill_sheet is
\* called under try; an exception of _fill_sheet is caught and printed
CompileAndFill ==
    /\ pc = "code"
    /\ loc.ki <= Len(loc.code_list)
    /\ ~Generated.raised
    /\ LET g == Generated
           f == FillSheet(g.h, self.common, self.first_col_after_template,
                          new_wb[loc.sheet], g.formula, loc.params, env.book)
           col == ColumnIndexFromString(f.start_col)
       IN  /\ heap' = g.h
           /\ new_wb' = [new_wb EXCEPT ![loc.sheet] = f.sheet]
           /\ self' = [self EXCEPT !.first_col_after_template = f.first_col]
           /\ obs' = [obs EXCEPT
                !.compiled = @ + 1,
                !.caught = IF f.raised THEN @ + 1 ELSE @,
                !.first_fill = IF loc.sheet_name \in DOMAIN @ THEN @
                               ELSE (loc.sheet_name :> f.start_col) @@ @,
                !.columns = Append(@,
                    [sheet |-> loc.sheet_name, col |-> col,
                     declared_none |-> loc.sheet_source = NoneName,
                     reported_missing |-> ~f.raised /\ ~f.sheet_exist
                                          /\ loc.sheet_source # NoneName,
                     raised |-> f.raised])]
    /\ loc' = [loc EXCEPT !.ki = @ + 1]
    /\ UNCHANGED <<env, pc, saved, arg, res>>

\* _generate_formulas raises: nothing catches it before process_years, which
\* prints it and raises it again
CompileRaises ==
    /\ pc = "code"
    /\ loc.ki <= Len(loc.code_list)
    /\ Generated.raised
    /\ heap' = Generated.h
    /\ obs' = [obs EXCEPT !.compiled = @ + 1, !.failure = "compile"]
    /\ pc' = "raised"
    /\ UNCHANGED <<self, env, loc, new_wb, saved, arg, res>>

\* the loop over the codes is exhausted: the next column key
CodeLoopEnd ==
    /\ pc = "code"
    /\ loc.ki > Len(loc.code_list)
    /\ loc' = [loc EXCEPT !.ci = @ + 1]
    /\ pc' = "col"
    /\ UNCHANGED <<heap, self, env, new_wb, saved, obs, arg, res>>

\* self.common['summary_sheet']
SummarySheets == Items(heap, Get(heap, self.common, "summary_sheet"))

\* lines 74-75 for one summary sheet
CreateSummarySheet ==
    /\ pc = "summary"
    /\ loc.sumi <= Len(SummarySheets)
    /\ LET summary_sheet == SummarySheets[loc.sumi]
       IN  IF Fmt(Get(heap, summary_sheet, "name")) = NoneName
           THEN /\ loc' = [loc EXCEPT !.sumi = @ + 1]
                /\ UNCHANGED <<new_wb, obs, pc>>
           ELSE LET r == CreateSummary(heap, self.common, new_wb,
                            self.first_col_after_template, summary_sheet)
                IN  /\ new_wb' = r.wb
                    /\ IF r.raised
                       THEN /\ pc' = "raised"
                            /\ obs' = [obs EXCEPT !.failure = "summary"]
                            /\ loc' = loc
                       ELSE /\ pc' = pc
                            /\ loc' = [loc EXCEPT !.sumi = @ + 1]
                            /\ obs' = [obs EXCEPT
                                 !.summaries = @ + 1,
                                 !.scanned =
                                     [t \in ScannedSheets(heap, self.common,
                                                          new_wb) |->
                                         self.first_col_after_template]
                                     @@ @]
    /\ UNCHANGED <<heap, self, env, saved, arg, res>>

\* the loop over the summary sheets is exhausted
SummaryLoopEnd ==
    /\ pc = "summary"
    /\ loc.sumi > Len(SummarySheets)
    /\ pc' = "save"
    /\ UNCHANGED <<heap, self, env, loc, new_wb, saved, obs, arg, res>>

\* _remove_sheet(wb): the sheet with the placeholder's title is removed
RemoveSheet(wb) ==
    LET keep == {i \in DOMAIN wb : wb[i].title # TemplateTitle}
    IN  [i \in 1..Cardinality(keep) |->
            wb[CHOOSE j \in keep : Cardinality({q \in keep : q <= j}) = i]]

\* lines 78-80: the placeholder is removed and the workbook is saved
SaveWorkbook ==
    /\ pc = "save"
    /\ new_wb' = RemoveSheet(new_wb)
    /\ saved' = Append(saved, [year |-> Year, wb |-> RemoveSheet(new_wb),
                               files |-> loc.files])
    /\ loc' = [loc EXCEPT !.yi = @ + 1]
    /\ pc' = "year"
    /\ UNCHANGED <<heap, self, env, obs, arg, res>>

\* a failed save that is logged and passed over: the loop goes on to the
\* next year
SaveFailsSwallowed ==
    /\ pc = "save"
    /\ new_wb' = RemoveSheet(new_wb)
    /\ obs' = [obs EXCEPT !.failure = "save"]
    /\ loc' = [loc EXCEPT !.yi = @ + 1]
    /\ pc' = "year"
    /\ UNCHANGED <<heap, self, env, saved, arg, res>>

\* wb.save raises: _save_workbook prints and raises again
SaveFails ==
    /\ pc = "save"
    /\ new_wb' = RemoveSheet(new_wb)
    /\ obs' = [obs EXCEPT !.failure = "save"]
    /\ pc' = "raised"
    /\ UNCHANGED <<heap, self, env, loc, saved, arg, res>>

Next ==
    \/ ProcessYears
    \/ StartYear
    \/ TemplateLoadFails
    \/ YearLoopEnd
    \/ EnterFile
    \/ FileLoopEnd
    \/ EnterSheet
    \/ SheetLoopEnd
    \/ SkipKey
    \/ PrepareKey
    \/ ColLoopEnd
    \/ CompileAndFill
    \/ CompileRaises
    \/ CodeLoopEnd
    \/ CreateSummarySheet
    \/ SummaryLoopEnd
    \/ SaveWorkbook
    \/ SaveFails

Spec == Init /\ [][Next]_vars

---------------------------------------------------------------------------
(* Configuration trees for the merge runs: dicts over the keys "a" and "b" *)
(* nested to MaxDepth along "a"; the base holds the leaves "x" and ["x"],  *)
(* the overlay "y" and ["y"].                                              *)

MaxDepth == 2

Leaves(ch) == {Str(<<ch>>), List(<<Str(<<ch>>)>>)}

RECURSIVE Trees(_, _)
\* the dicts of depth at most d with leaves of character ch
Trees(d, ch) ==
    IF d = 0 THEN {}
    ELSE LET sub == Leaves(ch) \cup Trees(d - 1, ch)
         IN  {EmptyDict}
             \cup {Dict(<<"a">>, "a" :> u) : u \in sub}
             \cup {Dict(<<"b">>, "b" :> w) : w \in Leaves(ch)}
             \cup {Dict(<<"a", "b">>, ("a" :> u) @@ ("b" :> w)) :
                       u \in sub, w \in Leaves(ch)}

\* the processor's own state in a run that studies one operation
Idle ==
    /\ self = NoRes
    /\ env = NoRes
    /\ pc = "op"
    /\ loc = InitLoc
    /\ new_wb = <<>>
    /\ saved = <<>>
    /\ obs = InitObs

\* the inputs on the heap: the base first, then the override
MergeArgs(b, o) ==
    LET rb == Load(<<>>, b)
        ro == Load(rb.h, o)
    IN  [h |-> ro.h, base |-> rb.c, override |-> ro.c]

InitMerge ==
    \E b \in Trees(MaxDepth, "x"), o \in Trees(MaxDepth, "y") :
        LET a == MergeArgs(b, o)
        IN  /\ heap = a.h
            /\ arg = [op |-> "merge", base |-> a.base, override |-> a.override,
                      b |-> b, o |-> o]
            /\ res = NoRes
            /\ Idle

\* result = self._deep_merge_dicts(base, override)
ApplyMerge ==
    /\ arg.op = "merge"
    /\ res = NoRes
    /\ LET r == DeepMergeDicts(heap, arg.base, arg.override)
       IN  /\ heap' = r.h
           /\ res' = r.c
    /\ UNCHANGED <<self, env, pc, loc, new_wb, saved, obs, arg>>

NextMerge == ApplyMerge

SpecMerge == InitMerge /\ [][NextMerge]_vars

---------------------------------------------------------------------------
(* Runs of the formula compiler and of the row rewrite on their own: a     *)
(* handler whose array is the rectangle $A$start:$C$end and whose row      *)
(* lookup value is a marker, compiled for one source file and code 1.      *)

MaxStart == 3
MaxRows == 3

\* the rectangles: every start row up to MaxStart with up to MaxRows rows,
\* and the rectangle of the comment of line 379 with the rows that can match
Rectangles ==
    {[start |-> st, end |-> st + n - 1, rows |-> st..(st + n - 1)] :
        st \in 1..MaxStart, n \in 1..MaxRows}
    \cup {[start |-> 12, end |-> 467, rows |-> {12, 20, 45, 467}]}

\* the row lookup values: no trailing digit, one, several, and an absolute
\* reference
Markers ==
    { <<"A">>, <<"A", "2">>, <<"A", "1", "2">>, <<"$", "A", "2">> }

\* $A$start:$C$end
ArrayText(st, en) ==
    <<"$", "A", "$">> \o IntToStr(st) \o <<":", "$", "C", "$">> \o IntToStr(en)

\* a "common" tree with the one handler p
FormulaCommon(array, marker) ==
    DictOf(<<
        <<"checking_list_existence", Bool(FALSE)>>,
        <<"rows_aliases", DictOf(<< <<"column", Str(<<"B">>)>> >>)>>,
        <<"funcs", DictOf(<< <<"p",
            DictOf(<< <<"array", Str(array)>>,
                      <<"row_num", DictOf(<< <<"looup_array", Str(<<"D">>)>>,
                                             <<"lookup_value", Str(marker)>> >>)>>,
                      <<"columns_num", DictOf(<< <<"lookup_value", Str(<<"B", "1">>)>>,
                                                 <<"match_type", Num(0)>> >>)>>
                   >>)>> >>)>>
    >>)

SourceFile == [dir |-> <<"d">>, name |-> <<"v", ".", "x">>]

InitFormula ==
    /\ \E rect \in Rectangles, marker \in Markers :
        /\ \E keyRows \in SUBSET rect.rows, codeRows \in SUBSET rect.rows,
              row \in 2..LastRow, op \in {"locate", "rewrite"} :
            /\ op = "rewrite" =>
                  rect.start = 1 /\ rect.end = 1 /\ keyRows = {} /\ codeRows = {}
            /\ op = "locate" => marker = <<"A", "2">> /\ row = 2
            /\ LET r == Load(<<>>, FormulaCommon(
                                      ArrayText(rect.start, rect.end), marker))
               IN  /\ heap = r.h
                   /\ arg = [op |-> op, common |-> r.c, start |-> rect.start,
                             end |-> rect.end, keyRows |-> keyRows,
                             codeRows |-> codeRows, marker |-> marker,
                             row |-> row]
    /\ res = NoRes
    /\ Idle

\* the handler the run compiles
FormulaParams == Get(heap, Get(heap, arg.common, "funcs"), "p")

\* _generate_formulas compiles the handler, and the row-locating part of the
\* formula is evaluated over the source sheet's rows
ApplyLocate ==
    /\ arg.op = "locate"
    /\ res = NoRes
    /\ LET g == GenerateFormulas(heap, arg.common, SourceFile, <<"S", "1">>,
                                 FormulaParams, Num(1))
           a == ParseArray(Get(heap, FormulaParams, "array").s)
       IN  /\ ~g.raised
           /\ heap' = g.h
           /\ res' = [formula |-> g.formula,
                      offset |-> AggregatePart(a.start_row, a.end_row,
                                               arg.keyRows, arg.codeRows)]
    /\ UNCHANGED <<self, env, pc, loc, new_wb, saved, obs, arg>>

\* _generate_formulas compiles the handler, and line 188 rewrites the formula
\* for the rows arg.row and arg.row + 1
ApplyRewrite ==
    /\ arg.op = "rewrite"
    /\ res = NoRes
    /\ LET g == GenerateFormulas(heap, arg.common, SourceFile, <<"S", "1">>,
                                 FormulaParams, Num(1))
           row_condition == Get(g.h, FormulaParams, "row_condition").s
       IN  /\ ~g.raised
           /\ heap' = g.h
           /\ res' = [formula |-> g.formula,
                      this |-> RowFormula(g.formula, row_condition, arg.row),
                      next |-> RowFormula(g.formula, row_condition, arg.row + 1)]
    /\ UNCHANGED <<self, env, pc, loc, new_wb, saved, obs, arg>>

NextFormula ==
    \/ ApplyLocate
    \/ ApplyRewrite

SpecFormula == InitFormula /\ [][NextFormula]_vars

---------------------------------------------------------------------------
(* Properties of the configuration trees.                                  *)

\* the years of the configuration file
ConfigYears == {k \in DOMAIN env.cfg.m : NotCommon(k)}

\* the mutable objects of the base tree and of every overlay
InputObjects ==
    Reach(heap, self.common_init)
    \cup UNION {Reach(heap, Get(heap, self.years_data, y)) : y \in ConfigYears}

\* C1: throughout process_years, over any sequence of periods, the base tree
\* and every period overlay equal what was loaded from the configuration
\* file, and once a period's merge has replaced self.common the merged tree
\* shares no dict or list with the base tree or with an overlay.
BaseNeverMutated ==
    /\ View(heap, self.common_init) = env.cfg.m["common"]
    /\ \A y \in ConfigYears :
          View(heap, Get(heap, self.years_data, y)) = env.cfg.m[y]
    /\ self.common # self.common_init =>
          Reach(heap, self.common) \cap InputObjects = {}

\* the second period has merged a non-empty overlay and its handlers' params
\* have been written while columns were filled
SecondPeriodWritten ==
    /\ pc = "save"
    /\ loc.yi = 2
    /\ env.cfg.m[Year] # EmptyDict
    /\ obs.compiled > 0
    /\ Has(heap, Get(heap, Get(heap, self.common, "funcs"), "p"),
           "row_condition")
    /\ ~Has(heap, Get(heap, Get(heap, self.common_init, "funcs"), "p"),
            "row_condition")

RECURSIVE MergedAs(_, _, _)
\* m is what merging the overlay o into the base b must give: m has the keys
\* of both; at a key of o it is the merge of the two sides when both are
\* mappings and o's value otherwise; at a key of b alone it is b's value
MergedAs(b, o, m) ==
    /\ m.t = "dict"
    /\ DOMAIN m.m = DOMAIN b.m \cup DOMAIN o.m
    /\ \A k \in DOMAIN m.m :
          IF k \in DOMAIN o.m
          THEN IF k \in DOMAIN b.m /\ b.m[k].t = "dict" /\ o.m[k].t = "dict"
               THEN MergedAs(b.m[k], o.m[k], m.m[k])
               ELSE m.m[k] = o.m[k]
          ELSE m.m[k] = b.m[k]

\* C2: _deep_merge_dicts(base, overlay) recurses at a key only when both
\* sides hold a mapping there; at every other key of the overlay the overlay's
\* value replaces the base's wholesale (a list is not concatenated, a scalar
\* replaces a mapping and a mapping a scalar); keys of the base alone are
\* kept; and merging the empty overlay gives the base.
MergeRecursesOnlyOnMappings ==
    (arg.op = "merge" /\ res # NoRes) =>
        /\ MergedAs(arg.b, arg.o, View(heap, res))
        /\ arg.o = EmptyDict => View(heap, res) = arg.b

\* a merge has met a key where both sides are mappings, below it a key where
\* a scalar replaces a list and a key of the base alone, and beside it a key
\* where a list replaces a list
MergedBothWays ==
    /\ arg.op = "merge"
    /\ res # NoRes
    /\ arg.b = Dict(<<"a", "b">>,
                    ("a" :> Dict(<<"a", "b">>,
                                 ("a" :> List(<<Str(<<"x">>)>>))
                                 @@ ("b" :> Str(<<"x">>))))
                    @@ ("b" :> List(<<Str(<<"x">>)>>)))
    /\ arg.o = Dict(<<"a", "b">>,
                    ("a" :> Dict(<<"a">>, "a" :> Str(<<"y">>)))
                    @@ ("b" :> List(<<Str(<<"y">>)>>)))
    /\ View(heap, res).m["a"].m["a"] = Str(<<"y">>)
    /\ View(heap, res).m["a"].m["b"] = Str(<<"x">>)
    /\ View(heap, res).m["b"] = List(<<Str(<<"y">>)>>)

---------------------------------------------------------------------------
(* Properties of the formula compiler and of the row rewrite.              *)

\* the rows whose key cell equals the lookup value and whose classification
\* cell equals the code
Hits == arg.keyRows \cap arg.codeRows

\* C3: for every rectangle with start row s and every set of rows in it that
\* match both the lookup value and the code, the row-locating part of the
\* compiled formula (the maximum of the matching row numbers, less s - 1)
\* evaluates to the offset in the rectangle of the matching row with the
\* largest row number: the last match wins.
LastMatchWins ==
    (arg.op = "locate" /\ res # NoRes /\ Hits # {}) =>
        /\ res.offset + (arg.start - 1) \in Hits
        /\ \A r \in Hits : r <= res.offset + (arg.start - 1)
        /\ Contains(res.formula,
                    <<")", ")", ")", "-">> \o IntToStr(arg.start - 1) \o <<",">>)

\* rows 20 and 45 of the rectangle $A$12:$C$467 both match, and row 45 is
\* the one located
Rows20And45Match ==
    /\ arg.op = "locate"
    /\ res # NoRes
    /\ arg.start = 12
    /\ Hits = {20, 45}
    /\ res.offset = 45 - 11

\* s without its trailing run of decimal digits
StripTrailingDigits(s) ==
    LET keep == {i \in DOMAIN s : IndexOf(Digits, s[i]) = 0}
    IN  IF keep = {} THEN <<>>
        ELSE SubSeq(s, 1, CHOOSE i \in keep : \A j \in keep : j <= i)

\* the compiled formula with the marker's trailing digits replaced by row
MarkerAtRow(formula, marker, row) ==
    Replace(formula, <<"=">> \o marker,
            <<"=">> \o StripTrailingDigits(marker) \o IntToStr(row))

\* C4: for every compiled formula and every lookup-value marker (no trailing
\* digit, one, or several), the formula written for data row r is the
\* compiled formula with the marker's whole trailing digit sequence replaced
\* by r, and so is the formula for row r + 1.
RewriteReplacesTrailingDigits ==
    (arg.op = "rewrite" /\ res # NoRes) =>
        /\ res.this = MarkerAtRow(res.formula, arg.marker, arg.row)
        /\ res.next = MarkerAtRow(res.formula, arg.marker, arg.row + 1)

---------------------------------------------------------------------------
(* Properties of the grid writer and of the period loop.                   *)

\* the sheet of the workbook being built that is titled title
SheetTitled(title) == new_wb[SheetIndex(new_wb, title)]

\* C5: whenever the grid writer has written a column for a source sheet that
\* is absent (the handler's sheet is declared "None", or the existence
\* check reported it missing), every data row 2..last row of that column
\* holds exactly "=NA()".
AbsentSheetColumnsHoldNA ==
    \A i \in DOMAIN obs.columns :
        LET c == obs.columns[i]
            sh == SheetTitled(c.sheet)
        IN  (c.declared_none \/ c.reported_missing) =>
                \A r \in 2..sh.max_row :
                    /\ <<r, c.col>> \in DOMAIN sh.cells
                    /\ sh.cells[<<r, c.col>>] = NAFormula

\* the function table of the current period
Funcs == Get(heap, self.common, "funcs")

\* C6: processing a classification key that has no entry in the function
\* table writes nothing to the workbook (so the number of non-empty row-1
\* cells of the sheet is unchanged), compiles no formula and raises no
\* error: the loop goes on to the next key.
NoHandlerWritesNothing ==
    [][(/\ pc = "col"
        /\ loc.ci <= Len(heap[loc.col_aliases.a].ks)
        /\ ~Has(heap, Funcs, Axis.list_key))
       => /\ new_wb' = new_wb
          /\ heap' = heap
          /\ obs' = obs
          /\ pc' = "col"
          /\ loc'.ci = loc.ci + 1]_vars

\* the key r, which has no handler, has been passed over after columns were
\* written for the keys before it
KeyWithoutHandlerPassed ==
    /\ pc = "col"
    /\ loc.ci = 4
    /\ KeyAt(heap, loc.col_aliases, 3) = "r"
    /\ ~Has(heap, Funcs, "r")
    /\ obs.compiled > 0

\* the cells of row 1 of a sheet that hold a value
HeaderCells(sheet) == {x \in DOMAIN sheet.cells : x[1] = 1}

\* the leftmost column of a sheet whose row-1 cell is empty
LeftmostEmpty(sheet) ==
    CHOOSE c \in 1..(Cardinality(HeaderCells(sheet)) + 1) :
        /\ <<1, c>> \notin DOMAIN sheet.cells
        /\ \A d \in 1..(c - 1) : <<1, d>> \in DOMAIN sheet.cells

\* C7: every grid writer invocation on a sheet writes its header into the
\* leftmost row-1 cell that is empty at that moment, and no row-1 cell that
\* already holds a value (a template header or an earlier written header) is
\* overwritten or moved.
HeadersGoToLeftmostEmpty ==
    [][(pc = "code" /\ new_wb' # new_wb)
       => LET before == new_wb[loc.sheet]
              after == new_wb'[loc.sheet]
              c == LeftmostEmpty(before)
          IN  /\ \A x \in HeaderCells(before) :
                    /\ x \in DOMAIN after.cells
                    /\ after.cells[x] = before.cells[x]
              /\ HeaderCells(after) = HeaderCells(before) \cup {<<1, c>>}
              /\ after.cells[<<1, c>>] =
                    Get(heap', loc.params, "sheet_col_name").s
              /\ \A k \in DOMAIN new_wb : k # loc.sheet => new_wb'[k] = new_wb[k]
      ]_vars

\* the sheet M of the template with a gap in its header row has received two
\* headers: one in the gap and one after the template's last header
TwoHeadersAroundTemplate ==
    /\ pc = "code"
    /\ SheetIndex(new_wb, <<"M">>) > 0
    /\ LET sh == SheetTitled(<<"M">>)
       IN  /\ HeaderCells(sh) = {<<1, 1>>, <<1, 2>>, <<1, 3>>, <<1, 4>>}
           /\ sh.cells[<<1, 1>>] = <<"K">>
           /\ sh.cells[<<1, 3>>] = <<"N">>
           /\ sh.cells[<<1, 2>>] # sh.cells[<<1, 4>>]

\* C8: a failure while compiling or filling the formula of one (source file,
\* classification value) pair, a handler without its range parameters
\* included, is caught and does not propagate: process_years is never ended
\* by it.
CompileFailureIsCaught == ~(pc = "raised" /\ obs.failure = "compile")

\* C9: for every period and every output sheet that the grid writer filled,
\* the column from which the aggregation compiler scans that sheet's headers
\* is the starting column of the first grid writer invocation on that sheet
\* in that period.
ScanStartsAtSheetsFirstFill ==
    \A t \in DOMAIN obs.scanned :
        t \in DOMAIN obs.first_fill => obs.scanned[t] = obs.first_fill[t]

\* C10: a period is processed as it is when it is the first of a run,
\* whatever periods were processed before it: the source files matched for
\* it are those that the base configuration's patterns match in its folder.
PeriodStartsAsFirst ==
    (pc = "file" /\ loc.fi = 1) =>
        loc.files = FindFiles(heap, self.common_init, env.folders[Year],
                              env.include_optional)

---------------------------------------------------------------------------
(* Runs of the tag matcher on its own.                                     *)

MaxHeaderLen == 3
MaxWordLen == 2

\* the sequences over S of length at most n
SeqsUpTo(S, n) == UNION {[1..k -> S] : k \in 0..n}

HeaderChars == {"a", "B", "-", " ", "~e"}
KeywordChars == {"A", "b", "-", "~E"}

\* "Москва заочная очно-заочная"
ExampleHeader ==
    <<"*M", "*o", "*s", "*k", "*v", "*a", " ",
      "*z", "*a", "*o", "*ch", "*n", "*a", "*ya", " ",
      "*o", "*ch", "*n", "*o", "-", "*z", "*a", "*o", "*ch", "*n", "*a", "*ya">>
\* "москва", "заочная", "вечерняя"
Moskva == <<"*m", "*o", "*s", "*k", "*v", "*a">>
Zaochnaya == <<"*z", "*a", "*o", "*ch", "*n", "*a", "*ya">>
Vechernyaya == <<"*v", "*e", "*ch", "*e", "*r", "*n", "*ya", "*ya">>

\* the keyword lists: none, one word, two one-character words
KeywordLists ==
    {<<>>}
    \cup {<<w>> : w \in SeqsUpTo(KeywordChars, MaxWordLen) \ {<<>>}}
    \cup {<< <<c>>, <<d>> >> : c \in KeywordChars, d \in KeywordChars}

MatchInputs ==
    {[header |-> h, keywords |-> k] :
        h \in SeqsUpTo(HeaderChars, MaxHeaderLen), k \in KeywordLists}
    \cup {[header |-> ExampleHeader, keywords |-> k] :
            k \in { <<Moskva, Zaochnaya>>, <<Moskva, Vechernyaya>>,
                    <<Zaochnaya>>, <<SubSeq(Zaochnaya, 1, 3)>> }}

InitMatch ==
    /\ \E in \in MatchInputs :
          arg = [op |-> "match", header |-> in.header, keywords |-> in.keywords]
    /\ heap = <<>>
    /\ res = NoRes
    /\ Idle

\* self._header_matches(header, keywords)
ApplyMatch ==
    /\ arg.op = "match"
    /\ res = NoRes
    /\ res' = [matched |-> HeaderMatches(arg.header, arg.keywords)]
    /\ UNCHANGED <<heap, self, env, pc, loc, new_wb, saved, obs, arg>>

NextMatch == ApplyMatch

SpecMatch == InitMatch /\ [][NextMatch]_vars

\* the maximal runs in s of characters of the set C
MaximalRuns(s, C) ==
    {SubSeq(s, i, j) : <<i, j>> \in
        {x \in (DOMAIN s) \X (DOMAIN s) :
            /\ x[1] <= x[2]
            /\ \A k \in x[1]..x[2] : s[k] \in C
            /\ x[1] = 1 \/ s[x[1] - 1] \notin C
            /\ x[2] = Len(s) \/ s[x[2] + 1] \notin C}}

\* every keyword, in lower case, is one of the maximal runs of characters of
\* C in the header in lower case
AllKeywordsAreTokens(C) ==
    \A i \in DOMAIN arg.keywords :
        Lower(arg.keywords[i]) \in MaximalRuns(Lower(arg.header), C)

\* the Latin letters, the Russian letters, the digits and the hyphen
LatinRussianTokenChars == ClassLetters \cup {"-"}

\* the letters of every alphabet, the digits and the hyphen
AllTokenChars ==
    LatinRussianTokenChars
    \cup {OtherUpper[i] : i \in DOMAIN OtherUpper}
    \cup {OtherLower[i] : i \in DOMAIN OtherLower}

\* C11, as the code has it: the tag matcher returns true exactly when every
\* keyword, compared case-insensitively, equals one of the header's tokens,
\* the tokens being the maximal runs of Latin letters, Russian letters,
\* digits and hyphens; every other character, a letter of another alphabet
\* included, separates tokens.
MatchesOnLatinRussianTokens ==
    (arg.op = "match" /\ res # NoRes) =>
        (res.matched <=> AllKeywordsAreTokens(LatinRussianTokenChars))

\* C11, as stated: the tokens are the maximal runs of letters, digits and
\* hyphens, whatever the alphabet of the letters.
MatchesOnLetterTokens ==
    (arg.op = "match" /\ res # NoRes) =>
        (res.matched <=> AllKeywordsAreTokens(AllTokenChars))

\* the header "Москва заочная очно-заочная" has been matched against
\* ["москва", "заочная"], with the result true
ExampleHeaderMatched ==
    /\ arg.op = "match"
    /\ arg.header = ExampleHeader
    /\ arg.keywords = <<Moskva, Zaochnaya>>
    /\ res # NoRes
    /\ res.matched

---------------------------------------------------------------------------
(* Runs of the aggregation compiler on its own, over a workbook whose      *)
(* output sheets have been filled.                                         *)

\* the columns of an output sheet after the two columns of the template
MaxCols == 3

\* what row 1 holds in such a column: nothing, or a header
HeaderValues == {<<>>, <<"a">>, <<"b">>, <<"a", " ", "b">>}

\* the header rows of the first output sheet
HeaderRows ==
    {<< <<"K">>, <<"N">> >> \o t : t \in [1..MaxCols -> HeaderValues]}

\* the other output sheet: absent, or as its template and one fill left it
OtherSheets ==
    { <<>>,
      << TemplateSheet(<<"M">>, << <<"K">>, <<"N">>, <<"b">> >>) >>,
      << TemplateSheet(<<"M">>, << <<"K">>, <<"N">>, <<>>, <<"a">> >>) >> }

\* the values of "tag_groups": absent (<<>>), or a list of keyword lists
TagGroupChoices ==
    { <<>>,
      << List(<<>>) >>,
      << List(<< List(<<Txt(<<"a">>)>>) >>) >>,
      << List(<< List(<<Txt(<<"a">>)>>), List(<<Txt(<<"b">>)>>) >>) >>,
      << List(<< List(<<Txt(<<"a">>)>>), List(<<Txt(<<"A">>)>>) >>) >>,
      << List(<< List(<<Txt(<<"a">>), Txt(<<"b">>)>>) >>) >>,
      << List(<< List(<<Txt(<<"a">>), Txt(<<"b">>)>>),
                 List(<<Txt(<<"a", "_", "b">>)>>) >>) >>,
      << List(<< List(<<Txt(<<"b">>)>>), List(<<Txt(<<"a">>)>>),
                 List(<<Txt(<<"B">>)>>) >>) >> }

\* self.common, as far as _create_summary_sheet reads it
SummaryCommon ==
    DictOf(<< <<"output_sheets",
                DictOf(<< <<"name_aliases",
                            DictOf(<< <<"b", Txt(<<"B">>)>>,
                                      <<"m", Txt(<<"M">>)>> >>)>> >>)>> >>)

\* one element of self.common['summary_sheet']
SummarySheet(name, tag_groups) ==
    DictOf(<< <<"name", Txt(name)>>,
              <<"range_col", Txt(<<"A">>)>>,
              <<"criteria_col", Txt(<<"A">>)>> >>
           \o [i \in DOMAIN tag_groups |-> <<"tag_groups", tag_groups[i]>>])

InitSummary ==
    /\ \E row \in HeaderRows, other \in OtherSheets,
          tg \in TagGroupChoices, name \in {<<"S">>, NoneName} :
          LET rc == Load(<<>>, SummaryCommon)
              rs == Load(rc.h, SummarySheet(name, tg))
          IN  /\ heap = rs.h
              /\ arg = [op |-> "summary", common |-> rc.c,
                        summary_sheet |-> rs.c,
                        wb |-> <<TemplateSheet(<<"B">>, row)>> \o other,
                        first_col |-> <<"C">>]
    /\ res = NoRes
    /\ Idle

\* self._create_summary_sheet(new_wb, summary_sheet)
ApplySummary ==
    /\ arg.op = "summary"
    /\ res = NoRes
    /\ res' = IF Fmt(Get(heap, arg.summary_sheet, "name")) = NoneName
              THEN [raised |-> FALSE, wb |-> arg.wb, start |-> 0,
                    headers |-> <<>>]
              ELSE CreateSummary(heap, arg.common, arg.wb, arg.first_col,
                                 arg.summary_sheet)
    /\ UNCHANGED <<heap, self, env, pc, loc, new_wb, saved, obs, arg>>

NextSummary == ApplySummary

SpecSummary == InitSummary /\ [][NextSummary]_vars

\* a summary sheet has been built, in tag-group mode or per header
SummaryBuilt(tag_mode) ==
    /\ arg.op = "summary"
    /\ res # NoRes
    /\ Fmt(Get(heap, arg.summary_sheet, "name")) # NoneName
    /\ HasTagGroups(heap, arg.summary_sheet) = tag_mode

\* the summary sheet of the workbook the call left
BuiltSheet ==
    res.wb[SheetIndex(res.wb, Fmt(Get(heap, arg.summary_sheet, "name")))]

\* C12: in tag-group mode the summary sheet receives one new header column
\* per keyword set, in the order of the list, also when two sets have the
\* same joined display name.
OneColumnPerKeywordSet ==
    SummaryBuilt(TRUE) =>
        LET groups == TagGroups(heap, Get(heap, arg.summary_sheet, "tag_groups"))
        IN  /\ Len(res.headers) = Len(groups)
            /\ \A i \in DOMAIN groups :
                  /\ res.headers[i] = TagName(groups[i])
                  /\ BuiltSheet.cells[<<1, res.start + i - 1>>]
                        = TagName(groups[i])

RECURSIVE Distinct(_)
\* s without the repetitions of an earlier element
Distinct(s) ==
    IF s = <<>> THEN <<>>
    ELSE LET d == Distinct(DropLast(s))
         IN  IF \E i \in DOMAIN d : d[i] = s[Len(s)] THEN d
             ELSE Append(d, s[Len(s)])

RECURSIVE HeadersFrom(_, _, _)
\* the headers of the contributing sheets, sheet after sheet, in the columns
\* from first_idx to the sheet's last column
HeadersFrom(names, i, first_idx) ==
    IF i > Len(names) THEN <<>>
    ELSE LET k == SheetIndex(arg.wb, names[i])
         IN  (IF k = 0 THEN <<>>
              ELSE SelectSeq([n \in 1..Max(0, arg.wb[k].max_column
                                                  - first_idx + 1) |->
                                 HeaderText(arg.wb[k], first_idx + n - 1)],
                             LAMBDA v : v # <<>>))
             \o HeadersFrom(names, i + 1, first_idx)

\* C13: in per-header mode the summary headers written are the distinct
\* headers found on the contributing sheets in every column at or to the
\* right of the recorded first-write column, in first-seen order, none
\* repeated and none missing.
SummaryHeadersAreAllDistinctHeaders ==
    SummaryBuilt(FALSE) =>
        /\ res.headers =
              Distinct(HeadersFrom(OutputSheetNames(heap, arg.common), 1,
                                   ColumnIndexFromString(arg.first_col)))
        /\ \A i \in DOMAIN res.headers :
              BuiltSheet.cells[<<1, res.start + i - 1>>] = res.headers[i]

---------------------------------------------------------------------------
(* Runs of the formula compiler on handlers whose array is absent or has   *)
(* corners written as absolute, mixed or relative references.              *)

\* how a corner is written: $COL$ROW, COL$ROW, $COLROW, COLROW
CornerForms == {"absolute", "row-absolute", "column-absolute", "relative"}

\* the corners: a form, a column and a row
Corners(cols, rows) ==
    {[form |-> f, col |-> c, row |-> r] : f \in CornerForms, c \in cols, r \in rows}

\* the text of a corner
CornerText(c) ==
    (IF c.form \in {"absolute", "column-absolute"} THEN <<"$">> ELSE <<>>)
    \o c.col
    \o (IF c.form \in {"absolute", "row-absolute"} THEN <<"$">> ELSE <<>>)
    \o IntToStr(c.row)

\* the arrays: none (<<>>), or a first and a last corner
Arrays ==
    {<<>>}
    \cup {<<c1, c2>> : c1 \in Corners({<<"A">>, <<"B">>}, {1, 12}),
                       c2 \in Corners({<<"W">>}, {12, 467})}

\* self.common with the handler p, whose array is a or is absent
CompileCommon(a) ==
    DictOf(<<
        <<"checking_list_existence", Bool(FALSE)>>,
        <<"rows_aliases", DictOf(<< <<"column", Str(<<"B">>)>> >>)>>,
        <<"funcs", DictOf(<< <<"p",
            DictOf((IF a = <<>> THEN <<>>
                    ELSE << <<"array", Str(CornerText(a[1]) \o <<":">>
                                           \o CornerText(a[2]))>> >>)
                   \o << <<"row_num",
                            DictOf(<< <<"looup_array", Str(<<"D">>)>>,
                                      <<"lookup_value", Str(<<"A", "2">>)>> >>)>>,
                         <<"columns_num",
                            DictOf(<< <<"lookup_value", Str(<<"B", "1">>)>>,
                                      <<"match_type", Num(0)>> >>)>> >>)>> >>)>>
    >>)

InitCompile ==
    /\ \E a \in Arrays :
          LET r == Load(<<>>, CompileCommon(a))
          IN  /\ heap = r.h
              /\ arg = [op |-> "compile", common |-> r.c, array |-> a]
    /\ res = NoRes
    /\ Idle

\* self._generate_formulas(file_path, sheet_name, params, code) for a sheet
\* that is present; the bounds are start_row, start_col_letter,
\* end_col_letter and end_row of lines 386-389
ApplyCompile ==
    /\ arg.op = "compile"
    /\ res = NoRes
    /\ LET params == Get(heap, Get(heap, arg.common, "funcs"), "p")
           g == GenerateFormulas(heap, arg.common, SourceFile, <<"S", "1">>,
                                 params, Num(1))
       IN  /\ heap' = g.h
           /\ res' = [raised |-> g.raised, formula |-> g.formula,
                      bounds |-> IF g.raised THEN <<>>
                                 ELSE ParseArray(Get(heap, params, "array").s)]
    /\ UNCHANGED <<self, env, pc, loc, new_wb, saved, obs, arg>>

NextCompile == ApplyCompile

SpecCompile == InitCompile /\ [][NextCompile]_vars

\* the handler's array is present and both corners are written $COL$ROW
BothCornersAbsolute ==
    /\ arg.array # <<>>
    /\ arg.array[1].form = "absolute"
    /\ arg.array[2].form = "absolute"

\* C14: compilation for a present sheet yields a formula only when the array
\* is present and both corners are absolute references $COL$ROW, and then
\* the parsed bounds are the corners' rows and column letters; for an absent
\* array or a corner that is relative or mixed it fails with an error.
CompilesOnlyAbsoluteCorners ==
    (arg.op = "compile" /\ res # NoRes) =>
        /\ res.raised <=> ~BothCornersAbsolute
        /\ ~res.raised =>
              res.bounds = [start_row |-> arg.array[1].row,
                            start_col_letter |-> arg.array[1].col,
                            end_col_letter |-> arg.array[2].col,
                            end_row |-> arg.array[2].row]

---------------------------------------------------------------------------
(* Runs of process_years up to the resolution of the two axes, over        *)
(* configurations that name the axes in common and in the overlays.        *)

AxisRoles == {"rows_aliases", "list_aliases"}

\* common["output_sheets"]: to_list, to_col when one is configured (<<>>
\* when none is) and the names of the sheets
OutputSheets(to_list, to_col) ==
    DictOf(<< <<"to_list", Key(to_list)>> >>
           \o [i \in DOMAIN to_col |-> <<"to_col", Key(to_col[i])>>]
           \o << <<"name_aliases",
                     DictOf(<< <<"b", Txt(<<"B">>)>>,
                               <<"m", Txt(<<"M">>)>> >>)>> >>)

\* the common section with these axes
AxesCommon(to_list, to_col) ==
    [Common(FALSE, TRUE) EXCEPT
        !.m["output_sheets"] = OutputSheets(to_list, to_col)]

\* the overlays of a year: nothing, a to-column axis, a to-sheet axis
AxesOverlays ==
    { EmptyDict,
      DictOf(<< <<"output_sheets",
                  DictOf(<< <<"to_col", Key("rows_aliases")>> >>)>> >>),
      DictOf(<< <<"output_sheets",
                  DictOf(<< <<"to_list", Key("list_aliases")>> >>)>> >>) }

InitAxes ==
    /\ \E to_list \in AxisRoles,
          to_col \in {<<>>} \cup {<<r>> : r \in AxisRoles},
          ov1 \in AxesOverlays, ov2 \in AxesOverlays :
        LET cfg == DictOf(<< <<"common", AxesCommon(to_list, to_col)>>,
                             <<"2020", ov1>>, <<"2021", ov2>> >>)
            r == Load(<<>>, cfg)
            h1 == Append(r.h, YearsData(r.h, r.c))
        IN  /\ heap = h1
            /\ self = [config |-> r.c,
                       common_init |-> Get(r.h, r.c, "common"),
                       common |-> Get(r.h, r.c, "common"),
                       years_data |-> Ref(Len(h1)),
                       first_col_after_template |-> <<>>]
            /\ env = [cfg |-> cfg,
                      template |-> << TemplateSheet(<<"B">>,
                                          << <<"K">>, <<"N">> >>) >>,
                      folders |-> Folders,
                      book |-> [readable |-> FALSE, sheet_names |-> {}],
                      include_optional |-> FALSE]
    /\ pc = "init"
    /\ loc = InitLoc
    /\ new_wb = <<>>
    /\ saved = <<>>
    /\ obs = InitObs
    /\ arg = NoRes
    /\ res = NoRes

NextAxes ==
    \/ ProcessYears
    \/ StartYear
    \/ EnterFile

SpecAxes == InitAxes /\ [][NextAxes]_vars

\* whether the effective configuration of the year names a to-column axis
ToColConfigured ==
    Has(heap, Get(heap, self.common, "output_sheets"), "to_col")

\* C15: the axis of the output sheets and the axis of the output columns
\* are the two different roles; when no to-column axis is configured the
\* column axis is the role not chosen for the sheets, and in no
\* configuration are the two axes the same role.
AxesAreTheTwoRoles ==
    pc = "sheet" =>
        /\ loc.to_list \in AxisRoles
        /\ loc.to_col \in AxisRoles
        /\ loc.to_list # loc.to_col
        /\ ~ToColConfigured =>
              loc.to_col = (IF loc.to_list = "rows_aliases"
                            THEN "list_aliases" ELSE "rows_aliases")

---------------------------------------------------------------------------
(* Failures at the level of a period.                                      *)

\* the template could not be loaded or the workbook could not be saved
PeriodLevelFailure == obs.failure \in {"template", "save"}

\* C16: a failure at the period level (template load or workbook save) in
\* period k aborts the whole run: the error reaches the caller of
\* process_years, the periods saved are those before k, and nothing is
\* processed or saved after it.
PeriodFailureAbortsRun ==
    /\ [](PeriodLevelFailure =>
            /\ pc = "raised"
            /\ Len(saved) = loc.yi - 1
            /\ \A i \in DOMAIN saved : saved[i].year = loc.years_to_process[i])
    /\ [][pc # "raised"]_vars

\* the save of the first of two periods has failed: the run has ended with
\* the error, nothing saved and the second period never started
FirstSaveOfTwoFailed ==
    /\ pc = "raised"
    /\ obs.failure = "save"
    /\ Len(loc.years_to_process) = 2
    /\ loc.yi = 1
    /\ saved = <<>>

---------------------------------------------------------------------------
(* Columns of the grid writer.                                             *)

\* the column obs.columns[i] has a value in every data row of its sheet
ColumnIsFull(i) ==
    LET c == obs.columns[i]
        sh == SheetTitled(c.sheet)
    IN  \A r \in 2..sh.max_row : <<r, c.col>> \in DOMAIN sh.cells

\* C17: in every reachable state of the output grid, each column whose
\* row-1 header was written by the grid writer has a value in every data
\* row 2..last row: a call that fails and is caught leaves no header-only
\* column.
NoHeaderOnlyColumn ==
    \A i \in DOMAIN obs.columns :
        /\ <<1, obs.columns[i].col>>
               \in DOMAIN SheetTitled(obs.columns[i].sheet).cells
        /\ ColumnIsFull(i)

=============================================================================
